---- MODULE Spec2Model ----
(***************************************************************************)
(* A model of the Citallios slab-strengthening verification pipeline:      *)
(*   - the Parameter Normalizer  (_to_number, _build_input_dict)           *)
(*   - the Envelope Reducer      (default_id_extractor, env_val, envelope) *)
(*   - the Batch Pipeline        (row_results, rows_results, excel_results)*)
(*                                                                         *)
(* Python values are records of one shape, so that any two of them can be  *)
(* compared: t is the Python type, k the kind of float (finite, nan, inf), *)
(* m and d the decimal number m * 10^(-d) with m carrying no factor 10,    *)
(* and s the text as a sequence of one-character tokens ("nbsp" stands for *)
(* the non-breaking space U+00A0).                                         *)
(***************************************************************************)
EXTENDS Integers, Sequences, FiniteSets, TLC

VARIABLES
    pc,            \* position of the call under test / of the batch run
    arg,           \* the argument(s) of the function under test
    ret,           \* its return value
    rows,          \* the raw rows read from the sheet (batch run)
    combs,         \* the requested regime set (batch run)
    idx,           \* index of the next row the list comprehension handles
    results_rows,  \* the result list built so far
    df_out         \* the table excel_results writes

vars == <<pc, arg, ret, rows, combs, idx, results_rows, df_out>>

(***************************************************************************)
(* Bounds of the model.                                                    *)
(***************************************************************************)
MaxTextLen == 3

(***************************************************************************)
(* Python values.                                                          *)
(***************************************************************************)
NoneV == [t |-> "NoneType", k |-> "", m |-> 0, d |-> 0, s |-> <<>>]

IntV(n) == [t |-> "int", k |-> "", m |-> n, d |-> 0, s |-> <<>>]

StrV(text) == [t |-> "str", k |-> "", m |-> 0, d |-> 0, s |-> text]

NaNV == [t |-> "float", k |-> "nan", m |-> 0, d |-> 0, s |-> <<>>]

InfV(neg) == [t |-> "float", k |-> IF neg THEN "-inf" ELSE "inf", m |-> 0, d |-> 0, s |-> <<>>]

\* m * 10^(-d) with the factors 10 of m moved into d; zero is 0 * 10^0.
RECURSIVE Norm(_, _)
Norm(m, d) ==
    IF m = 0 THEN <<0, 0>>
    ELSE IF m % 10 = 0 THEN Norm(m \div 10, d - 1)
    ELSE <<m, d>>

FloatV(m, d) ==
    LET n == Norm(m, d)
    IN  [t |-> "float", k |-> "fin", m |-> n[1], d |-> n[2], s |-> <<>>]

\* isinstance(v, (int, float))
IsNumeric(v) == v.t \in {"int", "float"}

IsFiniteNumber(v) == v.t = "int" \/ (v.t = "float" /\ v.k = "fin")

\* Numeric equality of two finite numbers (Python's 12 == 12.0).
NumEq(a, b) ==
    /\ IsFiniteNumber(a)
    /\ IsFiniteNumber(b)
    /\ Norm(a.m, a.d) = Norm(b.m, b.d)

(***************************************************************************)
(* Text: str.strip, str.lower, str.replace.                                *)
(***************************************************************************)
Whitespace == {" ", "nbsp"}

Digits == {"0", "1", "2", "3", "4", "5", "6", "7", "8", "9"}

DigitVal(c) ==
    CASE c = "0" -> 0 [] c = "1" -> 1 [] c = "2" -> 2 [] c = "3" -> 3
      [] c = "4" -> 4 [] c = "5" -> 5 [] c = "6" -> 6 [] c = "7" -> 7
      [] c = "8" -> 8 [] c = "9" -> 9

LowerChar(c) ==
    CASE c = "A" -> "a" [] c = "B" -> "b" [] c = "E" -> "e" [] c = "I" -> "i"
      [] c = "F" -> "f" [] c = "L" -> "l" [] c = "N" -> "n" [] c = "O" -> "o"
      [] c = "U" -> "u" [] OTHER -> c

Lower(text) == [i \in 1..Len(text) |-> LowerChar(text[i])]

RECURSIVE LStrip(_)
LStrip(text) ==
    IF text # <<>> /\ Head(text) \in Whitespace THEN LStrip(Tail(text)) ELSE text

RECURSIVE RStrip(_)
RStrip(text) ==
    IF text # <<>> /\ text[Len(text)] \in Whitespace
    THEN RStrip(SubSeq(text, 1, Len(text) - 1))
    ELSE text

Strip(text) == RStrip(LStrip(text))

IsPrefix(p, text) == Len(p) <= Len(text) /\ SubSeq(text, 1, Len(p)) = p

\* text.replace(old, new): leftmost non-overlapping occurrences, old non-empty.
RECURSIVE Replace(_, _, _)
Replace(text, old, new) ==
    IF text = <<>> THEN <<>>
    ELSE IF IsPrefix(old, text)
         THEN new \o Replace(SubSeq(text, Len(old) + 1, Len(text)), old, new)
         ELSE <<Head(text)>> \o Replace(Tail(text), old, new)

(***************************************************************************)
(* float(s) on a text: [sign] (inf | infinity | nan | decimal numeral),    *)
(* a decimal numeral being digits[.digits] or .digits, then an optional    *)
(* exponent e[sign]digits.  ok = FALSE is the ValueError.                  *)
(***************************************************************************)
RECURSIVE DigitsPrefixLen(_)
DigitsPrefixLen(text) ==
    IF text # <<>> /\ Head(text) \in Digits THEN 1 + DigitsPrefixLen(Tail(text)) ELSE 0

RECURSIVE DigitsValue(_)
DigitsValue(text) ==
    IF text = <<>> THEN 0
    ELSE 10 * DigitsValue(SubSeq(text, 1, Len(text) - 1)) + DigitVal(text[Len(text)])

Drop(text, n) == SubSeq(text, n + 1, Len(text))

ParseFail == [ok |-> FALSE, val |-> NoneV]

ParseText(text) ==
    LET signed == text # <<>> /\ Head(text) \in {"+", "-"}
        neg    == signed /\ Head(text) = "-"
        body   == IF signed THEN Tail(text) ELSE text
        low    == Lower(body)
        n1     == DigitsPrefixLen(body)
        r1     == Drop(body, n1)
        dot    == r1 # <<>> /\ Head(r1) = "."
        r2     == IF dot THEN Tail(r1) ELSE r1
        n2     == IF dot THEN DigitsPrefixLen(r2) ELSE 0
        r3     == Drop(r2, n2)
        mant   == DigitsValue(SubSeq(body, 1, n1) \o SubSeq(r2, 1, n2))
        hasExp == r3 # <<>> /\ Head(r3) \in {"e", "E"}
        r4     == IF hasExp THEN Tail(r3) ELSE r3
        eSign  == r4 # <<>> /\ Head(r4) \in {"+", "-"}
        eNeg   == eSign /\ Head(r4) = "-"
        r5     == IF eSign THEN Tail(r4) ELSE r4
        n3     == DigitsPrefixLen(r5)
        expo   == IF hasExp THEN (IF eNeg THEN -1 ELSE 1) * DigitsValue(SubSeq(r5, 1, n3)) ELSE 0
        wellFormed ==
            /\ n1 + n2 > 0
            /\ IF hasExp THEN n3 > 0 /\ n3 = Len(r5) ELSE r3 = <<>>
    IN  IF low = <<"n", "a", "n">> THEN [ok |-> TRUE, val |-> NaNV]
        ELSE IF low \in {<<"i", "n", "f">>, <<"i", "n", "f", "i", "n", "i", "t", "y">>}
             THEN [ok |-> TRUE, val |-> InfV(neg)]
        ELSE IF wellFormed
             THEN [ok |-> TRUE, val |-> FloatV((IF neg THEN -1 ELSE 1) * mant, n2 - expo)]
             ELSE ParseFail

\* float(s).  CHOOSE r \in { e : x \in {v} } : TRUE is e with the local
\* variable x holding the value v, computed once.
ParseFloat(s) == CHOOSE r \in { ParseText(text) : text \in {s} } : TRUE

(***************************************************************************)
(* _to_number(v)                                                           *)
(***************************************************************************)
NullMarkers == {<<"n", "a", "n">>, <<"n", "o", "n", "e">>, <<"n", "u", "l", "l">>}

\* The cleaning without the decimal-comma replacement.
CleanText_KeepsComma(text) ==
    Replace(Replace(text, <<" ">>, <<>>), <<"nbsp">>, <<>>)

\* s.replace(" ", "").replace(" ", "").replace(",", ".")
CleanText(text) ==
    Replace(Replace(Replace(text, <<" ">>, <<>>), <<"nbsp">>, <<>>), <<",">>, <<".">>)

\* The fallback returning the cleaned text instead of the original value.
TryFloat_ReturnsCleaned(text, v) ==
    CHOOSE r \in { IF p.ok THEN [exc |-> FALSE, val |-> p.val]
                   ELSE [exc |-> FALSE, val |-> StrV(text)] : p \in {ParseFloat(text)} } : TRUE

\* try: return float(s) / except Exception: return v
TryFloat(text, v) ==
    CHOOSE r \in { IF p.ok THEN [exc |-> FALSE, val |-> p.val]
                   ELSE [exc |-> FALSE, val |-> v] : p \in {ParseFloat(text)} } : TRUE

ToNumber(v) ==
    IF v = NoneV THEN [exc |-> FALSE, val |-> NoneV]
    ELSE IF IsNumeric(v) THEN [exc |-> FALSE, val |-> v]
    ELSE CHOOSE r \in { IF text = <<>> \/ Lower(text) \in NullMarkers
                        THEN [exc |-> FALSE, val |-> NoneV]
                        ELSE TryFloat(CleanText(text), v) : text \in {Strip(v.s)} } : TRUE

(***************************************************************************)
(* Inputs of _to_number: every text of at most MaxTextLen tokens over      *)
(* Alphabet, the texts the documentation names, and the non-text values a  *)
(* sheet cell can hold.                                                    *)
(***************************************************************************)
Alphabet == {"1", "0", ",", ".", " ", "nbsp", "-", "e", "n", "a", "N"}

RECURSIVE TextsUpTo(_)
TextsUpTo(n) ==
    IF n = 0 THEN {<<>>}
    ELSE LET shorter == TextsUpTo(n - 1)
         IN  shorter \cup {Append(x, c) : x \in shorter, c \in Alphabet}

NamedTexts ==
    { <<"1", " ", "2", "0", "0", ",", "5">>,
      <<" ", "1", " ", "2", "0", "0", ",", "5", " ">>,
      <<"1", "nbsp", "2", "0", "0", ",", "5">>,
      <<"3", ",", "1", "4">>,
      <<"N", "a", "N">>, <<"n", "o", "n", "e">>, <<"N", "o", "n", "e">>,
      <<"n", "u", "l", "l">>, <<"N", "U", "L", "L">>, <<" ", "n", "u", "l", "l", " ">>,
      <<"A", "c", "i", "e", "r", "s", " ", "B", "5", "0", "0">>,
      <<"N", "/", "A">>, <<"i", "n", "f">>, <<"4", ".", "0">> }

ToNumberInputs ==
    {NoneV, NaNV, IntV(12), IntV(0), IntV(-3), FloatV(12005, 1), FloatV(4, 0)}
        \cup {StrV(x) : x \in TextsUpTo(MaxTextLen) \cup NamedTexts}

(***************************************************************************)
(* Batch variables at rest, for the specifications of a single function.   *)
(***************************************************************************)
BatchIdle ==
    /\ rows = <<>>
    /\ combs = {}
    /\ idx = 0
    /\ results_rows = <<>>
    /\ df_out = <<>>

(***************************************************************************)
(* Specification of _to_number: one call on any input.                     *)
(***************************************************************************)
InitToNumber ==
    /\ pc = "call"
    /\ arg \in ToNumberInputs
    /\ ret = NoneV
    /\ BatchIdle

CallToNumber ==
    /\ pc = "call"
    /\ LET r == ToNumber(arg)
       IN  /\ pc' = IF r.exc THEN "raised" ELSE "return"
           /\ ret' = r.val
    /\ UNCHANGED <<arg, rows, combs, idx, results_rows, df_out>>

NextToNumber == CallToNumber

SpecToNumber == InitToNumber /\ [][NextToNumber]_vars

(***************************************************************************)
(* The Envelope Reducer (moteur.py).  A state map is an ordered dict: a    *)
(* sequence of entries [key, rec] with distinct keys, rec mapping field    *)
(* names to numbers.                                                       *)
(***************************************************************************)
RECURSIVE Pow10(_)
Pow10(n) == IF n <= 0 THEN 1 ELSE 10 * Pow10(n - 1)

\* a < b on finite numbers.
NumLt(a, b) ==
    LET D == IF a.d > b.d THEN a.d ELSE b.d
    IN  a.m * Pow10(D - a.d) < b.m * Pow10(D - b.d)

\* float(val) of a number.
PyFloat(v) == IF v.t = "int" THEN FloatV(v.m, 0) ELSE v

RECURSIVE TrailingDigitsLen(_)
TrailingDigitsLen(k) ==
    IF k # <<>> /\ k[Len(k)] \in Digits
    THEN 1 + TrailingDigitsLen(SubSeq(k, 1, Len(k) - 1))
    ELSE 0

\* The extractor reading the digits at the head of the key instead of its tail.
default_id_extractor_LeadingDigits(k) ==
    LET n == DigitsPrefixLen(k)
    IN  IF n = 0 THEN NoneV ELSE IntV(DigitsValue(SubSeq(k, 1, n)))

\* re.search(r'(\d+)$', k): the longest run of digits ending the key.
default_id_extractor(k) ==
    LET n == TrailingDigitsLen(k)
    IN  IF n = 0 THEN NoneV ELSE IntV(DigitsValue(SubSeq(k, Len(k) - n + 1, Len(k))))

\* env_val ignoring the default it is given.
env_val_IgnoresDefault(val, default) ==
    IF val = NoneV THEN IntV(0) ELSE PyFloat(val)

env_val(val, default) ==
    IF val = NoneV THEN default ELSE PyFloat(val)

\* The default of env_val's second parameter.
EnvValDefault == IntV(0)

\* The loop of envelope with no upper end: every identifier from start on.
RECURSIVE EnvelopeSub_NoUpperEnd(_, _, _, _)
EnvelopeSub_NoUpperEnd(d, start, end, field) ==
    IF d = <<>> THEN <<>>
    ELSE LET k    == Head(d).key
             v    == Head(d).rec
             rest == EnvelopeSub_NoUpperEnd(Tail(d), start, end, field)
             n    == default_id_extractor(k)
         IN  IF field \notin DOMAIN v THEN rest
             ELSE IF start = NoneV /\ end = NoneV THEN <<<<k, v[field]>>>> \o rest
             ELSE IF n = NoneV THEN rest
             ELSE IF start = NoneV \/ ~NumLt(n, start) THEN <<<<k, v[field]>>>> \o rest
                  ELSE rest

\* The loop of envelope: sub as the sequence of its <<key, value>> items.
RECURSIVE EnvelopeSub(_, _, _, _)
EnvelopeSub(d, start, end, field) ==
    IF d = <<>> THEN <<>>
    ELSE LET k    == Head(d).key
             v    == Head(d).rec
             rest == EnvelopeSub(Tail(d), start, end, field)
             n    == default_id_extractor(k)
         IN  IF field \notin DOMAIN v THEN rest
             ELSE IF start = NoneV /\ end = NoneV THEN <<<<k, v[field]>>>> \o rest
             ELSE IF n = NoneV THEN rest
             ELSE IF (start = NoneV \/ ~NumLt(n, start)) /\ (end = NoneV \/ ~NumLt(end, n))
                  THEN <<<<k, v[field]>>>> \o rest
                  ELSE rest

\* min(values): the first of the smallest values.
RECURSIVE PyMin(_)
PyMin(values) ==
    IF Len(values) = 1 THEN values[1]
    ELSE LET best == PyMin(SubSeq(values, 1, Len(values) - 1))
             x    == values[Len(values)]
         IN  IF NumLt(x, best) THEN x ELSE best

\* max(values): the first of the largest values.
RECURSIVE PyMax(_)
PyMax(values) ==
    IF Len(values) = 1 THEN values[1]
    ELSE LET best == PyMax(SubSeq(values, 1, Len(values) - 1))
             x    == values[Len(values)]
         IN  IF NumLt(best, x) THEN x ELSE best

\* The comprehension keeping only the first key that attains the value.
RECURSIVE IdsWhere_FirstOnly(_, _)
IdsWhere_FirstOnly(sub, val) ==
    IF sub = <<>> THEN <<>>
    ELSE IF NumEq(Head(sub)[2], val) THEN <<Head(sub)[1]>>
    ELSE IdsWhere_FirstOnly(Tail(sub), val)

\* [k for k, v in sub.items() if v == val]
RECURSIVE IdsWhere(_, _)
IdsWhere(sub, val) ==
    IF sub = <<>> THEN <<>>
    ELSE (IF NumEq(Head(sub)[2], val) THEN <<Head(sub)[1]>> ELSE <<>>)
            \o IdsWhere(Tail(sub), val)

envelope(d, start, end, field) ==
    LET sub    == EnvelopeSub(d, start, end, field)
        values == [i \in 1..Len(sub) |-> sub[i][2]]
    IN  IF sub = <<>>
        THEN [count |-> 0, min |-> NoneV, max |-> NoneV, ids_min |-> <<>>, ids_max |-> <<>>]
        ELSE [count   |-> Len(sub),
              min     |-> PyMin(values),
              max     |-> PyMax(values),
              ids_min |-> IdsWhere(sub, PyMin(values)),
              ids_max |-> IdsWhere(sub, PyMax(values))]

(***************************************************************************)
(* Inputs of envelope: every state map of at most MaxEntries entries over  *)
(* StateKeys, each entry with or without the stress field.                 *)
(***************************************************************************)
MaxEntries == 3

StateKeys == { <<"s", "1">>, <<"s", "2">>, <<"s", "1", "0", "1">>, <<"2", "c">> }

StressValues == { IntV(-10), IntV(-50), IntV(-5) }

StateRecs ==
    { [stress |-> x, strain |-> IntV(0)] : x \in StressValues } \cup { [strain |-> IntV(0)] }

RECURSIVE StateMapsUpTo(_)
StateMapsUpTo(n) ==
    IF n = 0 THEN {<<>>}
    ELSE LET shorter == StateMapsUpTo(n - 1)
         IN  shorter \cup
             { Append(x, [key |-> k, rec |-> r]) :
                 x \in {y \in shorter : Len(y) = n - 1},
                 k \in StateKeys, r \in StateRecs }

HasDistinctKeys(d) == \A i, j \in 1..Len(d) : d[i].key = d[j].key => i = j

StateMaps == { d \in StateMapsUpTo(MaxEntries) : HasDistinctKeys(d) }

Ranges ==
    { <<NoneV, NoneV>>, <<IntV(1), IntV(99)>>, <<IntV(101), IntV(199)>>,
      <<IntV(2), NoneV>>, <<NoneV, IntV(1)>> }

EnvelopeInputs ==
    { [d |-> d, start |-> r[1], end |-> r[2], field |-> "stress"] :
        d \in StateMaps, r \in Ranges }

(***************************************************************************)
(* Specification of the Envelope Reducer: envelope on any input, then      *)
(* env_val on its min and max as design_section applies it.                *)
(***************************************************************************)
InitEnvelope ==
    /\ pc = "call"
    /\ arg \in EnvelopeInputs
    /\ ret = NoneV
    /\ BatchIdle

CallEnvelope ==
    /\ pc = "call"
    /\ pc' = "return"
    /\ ret' = [sub |-> EnvelopeSub(arg.d, arg.start, arg.end, arg.field),
               env |-> envelope(arg.d, arg.start, arg.end, arg.field)]
    /\ UNCHANGED <<arg, rows, combs, idx, results_rows, df_out>>

CallEnvVal ==
    /\ pc = "return"
    /\ pc' = "env_val"
    /\ \E given \in BOOLEAN :
         LET default == IF given THEN IntV(-1) ELSE EnvValDefault
         IN  ret' = [sub |-> ret.sub, env |-> ret.env,
                     given |-> given, default |-> default,
                     val_min |-> env_val(ret.env.min, default),
                     val_max |-> env_val(ret.env.max, default)]
    /\ UNCHANGED <<arg, rows, combs, idx, results_rows, df_out>>

NextEnvelope == CallEnvelope \/ CallEnvVal

SpecEnvelope == InitEnvelope /\ [][NextEnvelope]_vars

(***************************************************************************)
(* The Parameter Normalizer (_build_input_dict).  A dict is the sequence   *)
(* of its <<key, value>> items in insertion order; a column name is a text.*)
(***************************************************************************)
DictHas(dict, k) == \E i \in 1..Len(dict) : dict[i][1] = k

DictGet(dict, k) == dict[CHOOSE i \in 1..Len(dict) : dict[i][1] = k][2]

DictKeys(dict) == { dict[i][1] : i \in 1..Len(dict) }

\* dict[k] = v
DictSet(dict, k, v) ==
    IF DictHas(dict, k)
    THEN [i \in 1..Len(dict) |-> IF dict[i][1] = k THEN <<k, v>> ELSE dict[i]]
    ELSE Append(dict, <<k, v>>)

\* dict.setdefault(k, v)
SetDefault(dict, k, v) == IF DictHas(dict, k) THEN dict ELSE Append(dict, <<k, v>>)

\* The spelling of the column names.
K(name) ==
    CASE name = "fck" -> <<"f", "c", "k">>
      [] name = "class_acier" -> <<"c", "l", "a", "s", "s", "_", "a", "c", "i", "e", "r">>
      [] name = "fyk" -> <<"f", "y", "k">>
      [] name = "Ef" -> <<"E", "f">>
      [] name = "sigma_fs" -> <<"s", "i", "g", "m", "a", "_", "f", "s">>
      [] name = "sigma_fu" -> <<"s", "i", "g", "m", "a", "_", "f", "u">>
      [] name = "carbone_feu" -> <<"c", "a", "r", "b", "o", "n", "e", "_", "f", "e", "u">>
      [] name = "h_dalle" -> <<"h", "_", "d", "a", "l", "l", "e">>
      [] name = "b_dalle" -> <<"b", "_", "d", "a", "l", "l", "e">>
      [] name = "As" -> <<"A", "s">>
      [] name = "dprim_s" -> <<"d", "p", "r", "i", "m", "_", "s">>
      [] name = "ns" -> <<"n", "s">>
      [] name = "Asr" -> <<"A", "s", "r">>
      [] name = "dprim_sr" -> <<"d", "p", "r", "i", "m", "_", "s", "r">>
      [] name = "nsr" -> <<"n", "s", "r">>
      [] name = "Af" -> <<"A", "f">>
      [] name = "dprim_f" -> <<"d", "p", "r", "i", "m", "_", "f">>
      [] name = "nf" -> <<"n", "f">>
      [] name = "m_els_1_1" -> <<"m", "_", "e", "l", "s", "_", "1", "_", "1">>
      [] name = "m_els_2_1" -> <<"m", "_", "e", "l", "s", "_", "2", "_", "1">>
      [] name = "m_elu_1" -> <<"m", "_", "e", "l", "u", "_", "1">>
      [] name = "m_feu_1" -> <<"m", "_", "f", "e", "u", "_", "1">>
      [] name = "m_els_1_2" -> <<"m", "_", "e", "l", "s", "_", "1", "_", "2">>
      [] name = "m_els_2_2" -> <<"m", "_", "e", "l", "s", "_", "2", "_", "2">>
      [] name = "m_elu_2" -> <<"m", "_", "e", "l", "u", "_", "2">>
      [] name = "m_feu_2" -> <<"m", "_", "f", "e", "u", "_", "2">>
      [] name = "m_els_1" -> <<"m", "_", "e", "l", "s", "_", "1">>
      [] name = "m_els_2" -> <<"m", "_", "e", "l", "s", "_", "2">>
      [] name = "m_elu" -> <<"m", "_", "e", "l", "u">>
      [] name = "m_feu" -> <<"m", "_", "f", "e", "u">>
      [] name = "File" -> <<"F", "i", "l", "e">>
      [] name = "ID" -> <<"I", "D">>

MATERIAUX_KEYS ==
    { K("fck"), K("class_acier"), K("fyk"), K("Ef"), K("sigma_fs"), K("sigma_fu"),
      K("carbone_feu") }

GEOMETRIE_KEYS == { K("h_dalle"), K("b_dalle"), K("As"), K("dprim_s"), K("ns") }

RENFORTS_KEYS == { K("Asr"), K("dprim_sr"), K("nsr"), K("Af"), K("dprim_f"), K("nf") }

EFFORTS1_KEYS == { K("m_els_1_1"), K("m_els_2_1"), K("m_elu_1"), K("m_feu_1") }

EFFORTS2_KEYS == { K("m_els_1_2"), K("m_els_2_2"), K("m_elu_2"), K("m_feu_2") }

\* EFFORTS_KEYS of the single-phase revision (JM_Calculs.py).
EFFORTS_KEYS == { K("m_els_1"), K("m_els_2"), K("m_elu"), K("m_feu") }

INT_KEYS == { K("ns"), K("nsr"), K("nf") }

effort_order == << K("m_els_1"), K("m_els_2"), K("m_elu"), K("m_feu") >>

\* The column name used as it is, without stripping.
StrippedKey_NoStrip(k) == k

\* key = k.strip()
StrippedKey(k) == Strip(k)

\* The renaming dropping every "_2" of the name.
CanonicalName2_DropsEvery(key) == Replace(key, <<"_", "2">>, <<>>)

\* The renaming dropping every "_1" of the name.
CanonicalName1_DropsEvery(key) == Replace(key, <<"_", "1">>, <<>>)

\* key.replace("_1_1", "_1").replace("_2_1", "_2").replace("_elu_1", "_elu").replace("_feu_1", "_feu")
CanonicalName1(key) ==
    Replace(Replace(Replace(Replace(key,
        <<"_", "1", "_", "1">>, <<"_", "1">>),
        <<"_", "2", "_", "1">>, <<"_", "2">>),
        <<"_", "e", "l", "u", "_", "1">>, <<"_", "e", "l", "u">>),
        <<"_", "f", "e", "u", "_", "1">>, <<"_", "f", "e", "u">>)

\* key.replace("_1_2", "_1").replace("_2_2", "_2").replace("_elu_2", "_elu").replace("_feu_2", "_feu")
CanonicalName2(key) ==
    Replace(Replace(Replace(Replace(key,
        <<"_", "1", "_", "2">>, <<"_", "1">>),
        <<"_", "2", "_", "2">>, <<"_", "2">>),
        <<"_", "e", "l", "u", "_", "2">>, <<"_", "e", "l", "u">>),
        <<"_", "f", "e", "u", "_", "2">>, <<"_", "f", "e", "u">>)

\* int(x) of a finite float: truncation toward zero.
PyInt(v) ==
    IF v.d <= 0 THEN IntV(v.m * Pow10(-v.d))
    ELSE IF v.m >= 0 THEN IntV(v.m \div Pow10(v.d))
    ELSE IntV(-((-v.m) \div Pow10(v.d)))

\* The correction that leaves the value as it is.
IntCoerce_KeepsValue(x) == x

\* try: int(float(x)) / except Exception: pass
IntCoerce(x) ==
    CHOOSE r \in
        { IF f.ok /\ f.val.k = "fin" THEN PyInt(f.val) ELSE x :
            f \in { IF x.t = "str" THEN ParseFloat(Strip(x.s))
                    ELSE IF IsNumeric(x) THEN [ok |-> TRUE, val |-> PyFloat(x)]
                    ELSE ParseFail } } : TRUE

\* The loop "for k in list(group.keys())" correcting the count fields.
IntFix(group) ==
    [i \in 1..Len(group) |->
        IF group[i][1] \in INT_KEYS /\ group[i][2] # NoneV
        THEN <<group[i][1], IntCoerce(group[i][2])>>
        ELSE group[i]]

EmptyGroups ==
    [materiaux |-> <<>>, geometrie |-> <<>>, renforts |-> <<>>,
     efforts1 |-> <<>>, efforts2 |-> <<>>]

\* The if / elif chain of the routing loop of _build_input_dict (Citallios.py),
\* on key = k.strip() and val = _to_number(v).
RouteField(acc, key, val) ==
    IF key \in MATERIAUX_KEYS THEN [acc EXCEPT !.materiaux = DictSet(@, key, val)]
    ELSE IF key \in GEOMETRIE_KEYS THEN [acc EXCEPT !.geometrie = DictSet(@, key, val)]
    ELSE IF key \in RENFORTS_KEYS THEN [acc EXCEPT !.renforts = DictSet(@, key, val)]
    ELSE IF key \in EFFORTS1_KEYS
         THEN [acc EXCEPT !.efforts1 = DictSet(@, CanonicalName1(key), val)]
    ELSE IF key \in EFFORTS2_KEYS
         THEN [acc EXCEPT !.efforts2 = DictSet(@, CanonicalName2(key), val)]
    ELSE acc

\* for k, v in row.items(): key = k.strip(); val = _to_number(v); ...
RECURSIVE RouteAll(_, _)
RouteAll(row, acc) ==
    IF row = <<>> THEN acc
    ELSE RouteAll(Tail(row),
                  RouteField(acc, StrippedKey(Head(row)[1]), ToNumber(Head(row)[2]).val))

\* for k in effort_order: efforts.setdefault(k, 0)
RECURSIVE WithDefaults(_, _)
WithDefaults(efforts, order) ==
    IF order = <<>> THEN efforts
    ELSE WithDefaults(SetDefault(efforts, Head(order), IntV(0)), Tail(order))

\* {k: efforts[k] for k in effort_order}
InOrder(efforts) == [i \in 1..Len(effort_order) |-> <<effort_order[i], DictGet(efforts, effort_order[i])>>]

\* The part of _build_input_dict after the routing loop: defaults, order,
\* integer correction and the returned dictionary.
Finish(acc) ==
    [materiaux |-> acc.materiaux,
     geometrie |-> IntFix(acc.geometrie),
     renforts  |-> IntFix(acc.renforts),
     efforts_1 |-> InOrder(WithDefaults(acc.efforts1, effort_order)),
     efforts_2 |-> InOrder(WithDefaults(acc.efforts2, effort_order))]

\* _build_input_dict of Citallios.py.
BuildInputDict(row) == CHOOSE d \in { Finish(acc) : acc \in {RouteAll(row, EmptyGroups)} } : TRUE

\* The if / elif chain of the routing loop of _build_input_dict (JM_Calculs.py).
JM_RouteField(acc, key, val) ==
    IF key \in MATERIAUX_KEYS THEN [acc EXCEPT !.materiaux = DictSet(@, key, val)]
    ELSE IF key \in GEOMETRIE_KEYS THEN [acc EXCEPT !.geometrie = DictSet(@, key, val)]
    ELSE IF key \in RENFORTS_KEYS THEN [acc EXCEPT !.renforts = DictSet(@, key, val)]
    ELSE IF key \in EFFORTS_KEYS THEN [acc EXCEPT !.efforts1 = DictSet(@, key, val)]
    ELSE acc

RECURSIVE JM_RouteAll(_, _)
JM_RouteAll(row, acc) ==
    IF row = <<>> THEN acc
    ELSE JM_RouteAll(Tail(row),
                     JM_RouteField(acc, StrippedKey(Head(row)[1]), ToNumber(Head(row)[2]).val))

\* The part of _build_input_dict (JM_Calculs.py) after the routing loop.
JM_Finish(acc) ==
    [materiaux |-> acc.materiaux,
     geometrie |-> IntFix(acc.geometrie),
     renforts  |-> IntFix(acc.renforts),
     efforts   |-> acc.efforts1]

\* _build_input_dict of JM_Calculs.py.
JM_BuildInputDict(row) ==
    CHOOSE d \in { JM_Finish(acc) : acc \in {JM_RouteAll(row, EmptyGroups)} } : TRUE

(***************************************************************************)
(* Inputs of _build_input_dict: every row of one field over ColumnNames    *)
(* and CellValues, every row of at most MaxFields fields over CoreColumns  *)
(* and CoreValues, and the documented case as one full row.                *)
(***************************************************************************)
MaxFields == 2

Padded(k) == <<" ">> \o k \o <<" ">>

ColumnNames ==
    MATERIAUX_KEYS \cup GEOMETRIE_KEYS \cup RENFORTS_KEYS \cup EFFORTS1_KEYS
        \cup EFFORTS2_KEYS \cup EFFORTS_KEYS \cup { K("File"), K("ID") }
        \cup { Padded(K("fck")), Padded(K("ns")), Padded(K("m_elu_1")) }

CoreColumns ==
    { K("fck"), Padded(K("fck")), K("ns"),
      K("m_els_1_1"), Padded(K("m_els_1_1")), K("m_els_1_2"), K("ID") }

CellValues ==
    { IntV(30), FloatV(47, 1), StrV(<<"1", ",", "5">>), StrV(<<"B">>), StrV(<<"i", "n", "f">>),
      NoneV }

CoreValues == { IntV(30), FloatV(47, 1), StrV(<<"B">>) }

RECURSIVE RowsUpTo(_)
RowsUpTo(n) ==
    IF n = 0 THEN {<<>>}
    ELSE LET shorter == RowsUpTo(n - 1)
         IN  shorter \cup
             { Append(x, <<k, v>>) :
                 x \in {y \in shorter : Len(y) = n - 1},
                 k \in CoreColumns, v \in CoreValues }

HasDistinctNames(row) == \A i, j \in 1..Len(row) : row[i][1] = row[j][1] => i = j

\* The end-to-end case of the documentation as one sheet row.
SampleRow ==
    << <<K("ID"), StrV(<<"A">>)>>,
       <<K("fck"), IntV(25)>>, <<K("class_acier"), StrV(<<"B">>)>>, <<K("fyk"), IntV(500)>>,
       <<K("Ef"), IntV(220000)>>, <<K("sigma_fs"), IntV(1300)>>, <<K("sigma_fu"), IntV(1445)>>,
       <<K("carbone_feu"), IntV(1)>>,
       <<K("h_dalle"), FloatV(25, 2)>>, <<K("b_dalle"), FloatV(1, 0)>>,
       <<K("As"), FloatV(113, 6)>>, <<K("dprim_s"), FloatV(4, 2)>>, <<K("ns"), FloatV(4, 0)>>,
       <<K("Asr"), FloatV(113, 6)>>, <<K("dprim_sr"), FloatV(25, 3)>>, <<K("nsr"), FloatV(2, 0)>>,
       <<K("Af"), FloatV(906, 7)>>, <<K("dprim_f"), IntV(0)>>, <<K("nf"), FloatV(3, 0)>>,
       <<K("m_els_1_1"), IntV(30)>>, <<K("m_els_2_1"), IntV(30)>>,
       <<K("m_elu_1"), IntV(80)>>, <<K("m_feu_1"), IntV(60)>>,
       <<K("m_els_1_2"), IntV(10)>>, <<K("m_els_2_2"), IntV(10)>>,
       <<K("m_elu_2"), IntV(20)>>, <<K("m_feu_2"), IntV(15)>> >>

\* The phase-1 and phase-2 column of each canonical force name.
Phase1Name(c) ==
    CASE c = K("m_els_1") -> K("m_els_1_1") [] c = K("m_els_2") -> K("m_els_2_1")
      [] c = K("m_elu") -> K("m_elu_1") [] c = K("m_feu") -> K("m_feu_1")

Phase2Name(c) ==
    CASE c = K("m_els_1") -> K("m_els_1_2") [] c = K("m_els_2") -> K("m_els_2_2")
      [] c = K("m_elu") -> K("m_elu_2") [] c = K("m_feu") -> K("m_feu_2")

\* Known groups: those of the driver script (Citallios JM.py), with some
\* values varied, and a second force group.
KnownGroups ==
    { [materiaux |->
          << <<K("fck"), IntV(25)>>, <<K("class_acier"), StrV(<<steel>>)>>,
             <<K("fyk"), IntV(500)>>, <<K("Ef"), IntV(170000)>>,
             <<K("sigma_fs"), IntV(1300)>>, <<K("sigma_fu"), IntV(1445)>>,
             <<K("carbone_feu"), IntV(1)>> >>,
       geometrie |->
          << <<K("h_dalle"), FloatV(26, 2)>>, <<K("b_dalle"), FloatV(22, 1)>>,
             <<K("As"), FloatV(565, 6)>>, <<K("dprim_s"), FloatV(4, 2)>>, <<K("ns"), ns>> >>,
       renforts |->
          << <<K("Asr"), Asr>>, <<K("dprim_sr"), FloatV(25, 3)>>, <<K("nsr"), IntV(10)>>,
             <<K("Af"), FloatV(96, 6)>>, <<K("dprim_f"), FloatV(0, 0)>>, <<K("nf"), nf>> >>,
       efforts_1 |->
          << <<K("m_els_1"), IntV(38)>>, <<K("m_els_2"), IntV(0)>>,
             <<K("m_elu"), m_elu>>, <<K("m_feu"), IntV(38)>> >>,
       efforts_2 |->
          << <<K("m_els_1"), IntV(12)>>, <<K("m_els_2"), m_els_2>>,
             <<K("m_elu"), FloatV(165, 1)>>, <<K("m_feu"), IntV(0)>> >>] :
        steel \in {"A", "B"}, ns \in {IntV(1), FloatV(4, 0)},
        Asr \in {FloatV(0, 0), FloatV(113, 6)}, nf \in {IntV(1), FloatV(0, 0)},
        m_elu \in {FloatV(4992, 2), IntV(-12)}, m_els_2 \in {IntV(12), FloatV(75, 1)} }

\* The flat row of known groups: the fields of the material, geometry and
\* reinforcement groups, then the forces under their phase-1 and phase-2
\* column names and, for the single-phase revision, under the canonical names.
Flatten(g) ==
    g.materiaux \o g.geometrie \o g.renforts
        \o [i \in 1..Len(g.efforts_1) |-> <<Phase1Name(g.efforts_1[i][1]), g.efforts_1[i][2]>>]
        \o [i \in 1..Len(g.efforts_2) |-> <<Phase2Name(g.efforts_2[i][1]), g.efforts_2[i][2]>>]
        \o g.efforts_1

BuildInputs ==
    { row \in RowsUpTo(MaxFields) : HasDistinctNames(row) }
        \cup { << <<k, v>> >> : k \in ColumnNames, v \in CellValues }
        \cup { SampleRow }
        \cup { Flatten(g) : g \in KnownGroups }

(***************************************************************************)
(* Specification of _build_input_dict: one call on any row, in both        *)
(* revisions of the normalizer.                                            *)
(***************************************************************************)
InitBuild ==
    /\ pc = "call"
    /\ arg \in BuildInputs
    /\ ret = NoneV
    /\ BatchIdle

CallBuildInputDict ==
    /\ pc = "call"
    /\ pc' = "return"
    /\ ret' = [cit |-> BuildInputDict(arg), jm |-> JM_BuildInputDict(arg)]
    /\ UNCHANGED <<arg, rows, combs, idx, results_rows, df_out>>

NextBuild == CallBuildInputDict

SpecBuild == InitBuild /\ [][NextBuild]_vars

(***************************************************************************)
(* The section calculation (moteur.py).  The solver of the sections is a   *)
(* library outside the repository: what it returns is kept as the value    *)
(* Solved(...) naming the quantity and the data it was computed from.      *)
(* What the repository's own code does with the fields is modelled: the    *)
(* look-ups of the unpack_* functions and the arithmetic of def_sections.  *)
(***************************************************************************)
HasAll(dict, keys) == keys \subseteq DictKeys(dict)

\* The sign of a number (0 for nan, whose comparisons are all false).
Sign(x) ==
    IF x.t = "float" /\ x.k = "inf" THEN 1
    ELSE IF x.t = "float" /\ x.k = "-inf" THEN -1
    ELSE IF x.t = "float" /\ x.k = "nan" THEN 0
    ELSE IF x.m > 0 THEN 1 ELSE IF x.m < 0 THEN -1 ELSE 0

\* x * y > 0
ProductPositive(x, y) == Sign(x) * Sign(y) > 0

\* b_dalle / n and range(n) for a bar count n: TypeError unless n is an
\* integer, ZeroDivisionError when it is 0.
SpacingRaises(n) == n.t # "int" \/ n.m = 0

\* def_sections raises: KeyError from unpack_materiaux / unpack_geometry /
\* unpack_renforts on a missing field, TypeError or ZeroDivisionError from its
\* own arithmetic on a field that is no number or a count of 0.
DefSectionsRaises(materiaux, geometrie, renforts, comb_type) ==
    \/ ~HasAll(materiaux, MATERIAUX_KEYS)
    \/ ~HasAll(geometrie, GEOMETRIE_KEYS)
    \/ ~HasAll(renforts, RENFORTS_KEYS)
    \/ /\ comb_type = "fire"
       /\ \/ ~IsNumeric(DictGet(materiaux, K("Ef")))
          \/ ~IsNumeric(DictGet(materiaux, K("carbone_feu")))
    \/ ~IsNumeric(DictGet(geometrie, K("b_dalle")))
    \/ SpacingRaises(DictGet(geometrie, K("ns")))
    \/ ~IsNumeric(DictGet(renforts, K("Asr")))
    \/ ~IsNumeric(DictGet(renforts, K("nsr")))
    \/ /\ ProductPositive(DictGet(renforts, K("Asr")), DictGet(renforts, K("nsr")))
       /\ SpacingRaises(DictGet(renforts, K("nsr")))
    \/ ~IsNumeric(DictGet(renforts, K("Af")))
    \/ ~IsNumeric(DictGet(renforts, K("nf")))
    \/ /\ ProductPositive(DictGet(renforts, K("Af")), DictGet(renforts, K("nf")))
       /\ SpacingRaises(DictGet(renforts, K("nf")))

\* A quantity the solver returns for a section under a moment.
Solved(quantity, comb_type, section, moment) ==
    [t |-> "solved", q |-> quantity, comb |-> comb_type, section |-> section, m |-> moment]

Raised == [exc |-> TRUE, val |-> NoneV]

\* The dictionary design_section returns in 'sls'.
DesignSls(section_1, section_2, m_els_1, m_els_2) ==
    [exc |-> FALSE,
     val |-> [m1        |-> m_els_1,
              m2        |-> m_els_2,
              sigma_c1  |-> Solved("sigma_c", "sls", section_1, m_els_1),
              sigma_c2  |-> Solved("sigma_c", "sls", section_2, m_els_2),
              sigma_s1  |-> Solved("sigma_s", "sls", section_1, m_els_1),
              sigma_s2  |-> Solved("sigma_s", "sls", section_2, m_els_2),
              sigma_sr2 |-> Solved("sigma_sr", "sls", section_2, m_els_2),
              sigma_f2  |-> Solved("sigma_f", "sls", section_2, m_els_2)]]

\* The dictionary design_section returns in 'uls' and 'fire'.
DesignUltimate(comb_type, section_1, section_2, m_ed) ==
    [exc |-> FALSE,
     val |-> [m_ed     |-> m_ed,
              m_rd1    |-> Solved("m_rd", comb_type, section_1, IntV(0)),
              m_rd2    |-> Solved("m_rd", comb_type, section_2, IntV(0)),
              sigma_c  |-> Solved("sigma_c", comb_type, section_2, m_ed),
              sigma_s  |-> Solved("sigma_s", comb_type, section_2, m_ed),
              sigma_sr |-> Solved("sigma_sr", comb_type, section_2, m_ed),
              sigma_f  |-> Solved("sigma_f", comb_type, section_2, m_ed)]]

\* design_section(materiaux, geometrie, renforts, efforts, comb_type)
design_section(materiaux, geometrie, renforts, efforts, comb_type) ==
    IF DefSectionsRaises(materiaux, geometrie, renforts, comb_type) THEN Raised
    ELSE IF ~HasAll(efforts, EFFORTS_KEYS) THEN Raised
    ELSE IF comb_type = "sls"
         THEN DesignSls(<<materiaux, geometrie>>, <<materiaux, geometrie, renforts>>,
                        DictGet(efforts, K("m_els_1")), DictGet(efforts, K("m_els_2")))
         ELSE DesignUltimate(comb_type,
                             <<materiaux, geometrie>>, <<materiaux, geometrie, renforts>>,
                             IF comb_type = "uls" THEN DictGet(efforts, K("m_elu"))
                             ELSE DictGet(efforts, K("m_feu")))

(***************************************************************************)
(* row_results(d, combs): the result columns of one normalized row, or the *)
(* exception of the first regime whose design_section raises.              *)
(***************************************************************************)
\* r.get(k, 0)
GetOr0(dict, k) == IF DictHas(dict, k) THEN DictGet(dict, k) ELSE IntV(0)

\* r_asr keeping the composite of the row as well.
r_asr_KeepsFrp(r) ==
    << <<K("Asr"), GetOr0(r, K("Asr"))>>, <<K("dprim_sr"), GetOr0(r, K("dprim_sr"))>>,
       <<K("nsr"), GetOr0(r, K("nsr"))>>,
       <<K("Af"), GetOr0(r, K("Af"))>>, <<K("dprim_f"), GetOr0(r, K("dprim_f"))>>,
       <<K("nf"), GetOr0(r, K("nf"))>> >>

\* r_asr: the steel reinforcement kept, the composite set to zero.
r_asr(r) ==
    << <<K("Asr"), GetOr0(r, K("Asr"))>>, <<K("dprim_sr"), GetOr0(r, K("dprim_sr"))>>,
       <<K("nsr"), GetOr0(r, K("nsr"))>>,
       <<K("Af"), IntV(0)>>, <<K("dprim_f"), IntV(0)>>, <<K("nf"), IntV(0)>> >>

Els1Columns(sls1) ==
    << <<"els1_m1", sls1.m1>>, <<"els1_m2", sls1.m2>>,
       <<"els1_sigma_c1", sls1.sigma_c1>>, <<"els1_sigma_c2", sls1.sigma_c2>>,
       <<"els1_sigma_s1", sls1.sigma_s1>>, <<"els1_sigma_s2", sls1.sigma_s2>>,
       <<"els1_sigma_sr2", sls1.sigma_sr2>>, <<"els1_sigma_f2", sls1.sigma_f2>> >>

Elu1Columns(uls1) ==
    << <<"elu1_m_ed", uls1.m_ed>>, <<"elu1_m_rd1", uls1.m_rd1>>, <<"elu1_m_rd2", uls1.m_rd2>>,
       <<"elu1_sigma_c", uls1.sigma_c>>, <<"elu1_sigma_s", uls1.sigma_s>>,
       <<"elu1_sigma_sr", uls1.sigma_sr>>, <<"elu1_sigma_f", uls1.sigma_f>> >>

Feu1Columns(feu1) ==
    << <<"feu1_m_ed", feu1.m_ed>>, <<"feu1_m_rd1", feu1.m_rd1>>, <<"feu1_m_rd2", feu1.m_rd2>>,
       <<"feu1_sigma_c", feu1.sigma_c>>, <<"feu1_sigma_s", feu1.sigma_s>>,
       <<"feu1_sigma_sr", feu1.sigma_sr>>, <<"feu1_sigma_f", feu1.sigma_f>> >>

Elu2Columns(uls2) ==
    << <<"elu2_m_ed", uls2.m_ed>>, <<"elu2_sigma_c", uls2.sigma_c>>,
       <<"elu2_sigma_s", uls2.sigma_s>>, <<"elu2_m_rd", uls2.m_rd2>> >>

\* One "if ... in combs" block: out.update(columns) when the regime is
\* requested and nothing raised before; the exception when its design raises.
Block(acc, requested, design, columns) ==
    IF acc.exc \/ ~requested THEN acc
    ELSE IF design.exc THEN Raised
    ELSE [exc |-> FALSE, val |-> acc.val \o columns]

\* The four blocks in the order of the code, on the four designs.
RowBlocks(cs, sls1, uls1, feu1, uls2) ==
    Block(
      Block(
        Block(
          Block([exc |-> FALSE, val |-> <<>>],
                "els" \in cs, sls1, Els1Columns(sls1.val)),
          "elu" \in cs, uls1, Elu1Columns(uls1.val)),
        "feu" \in cs, feu1, Feu1Columns(feu1.val)),
      "elu" \in cs, uls2, Elu2Columns(uls2.val))

row_results(d, cs) ==
    CHOOSE out \in
        { RowBlocks(cs, sls1, uls1, feu1, uls2) :
            sls1 \in {design_section(d.materiaux, d.geometrie, d.renforts, d.efforts_1, "sls")},
            uls1 \in {design_section(d.materiaux, d.geometrie, d.renforts, d.efforts_1, "uls")},
            feu1 \in {design_section(d.materiaux, d.geometrie, d.renforts, d.efforts_1, "fire")},
            uls2 \in {design_section(d.materiaux, d.geometrie, r_asr(d.renforts), d.efforts_2,
                                     "uls")} } : TRUE

(***************************************************************************)
(* Inputs of the batch run: sheets of at most MaxRows rows.  The rows of a *)
(* sheet have the same columns; a sheet is the documented row with some    *)
(* cells changed, with or without the column fck.                          *)
(***************************************************************************)
MaxRows == 2

WithCell(row, name, v) ==
    [i \in 1..Len(row) |-> IF row[i][1] = name THEN <<name, v>> ELSE row[i]]

NotNamedFck(field) == field[1] # K("fck")

WithoutFck(row) == SelectSeq(row, NotNamedFck)

SheetRows ==
    { SampleRow,
      WithCell(SampleRow, K("m_elu_1"), IntV(120)),
      WithCell(SampleRow, K("ns"), IntV(0)),
      WithCell(SampleRow, K("b_dalle"), NoneV) }

RECURSIVE SheetsUpTo(_)
SheetsUpTo(n) ==
    IF n = 0 THEN {<<>>}
    ELSE LET shorter == SheetsUpTo(n - 1)
         IN  shorter \cup
             { Append(x, r) : x \in {y \in shorter : Len(y) = n - 1}, r \in SheetRows }

Sheets ==
    SheetsUpTo(MaxRows)
        \cup { [i \in 1..Len(sheet) |-> WithoutFck(sheet[i])] : sheet \in SheetsUpTo(MaxRows) }

Regimes == {"els", "elu", "feu"}

(***************************************************************************)
(* Specification of the batch run: rows_results or excel_results on a      *)
(* sheet, one step per row of the comprehension.                           *)
(***************************************************************************)
InitBatch ==
    /\ pc = "call"
    /\ arg \in [fn : {"rows_results", "excel_results"}, sheet : Sheets]
    /\ combs \in SUBSET Regimes
    /\ ret = NoneV
    /\ rows = <<>>
    /\ idx = 0
    /\ results_rows = <<>>
    /\ df_out = <<>>

\* rows = input_dicos_entrée(path): [_build_input_dict(r) for r in rows]
InputDicosEntree ==
    /\ pc = "call"
    /\ pc' = "rows"
    /\ rows' = [i \in 1..Len(arg.sheet) |-> BuildInputDict(arg.sheet[i])]
    /\ idx' = 1
    /\ UNCHANGED <<arg, ret, combs, results_rows, df_out>>

\* One turn of [row_results(d, combs) for d in rows] that returns.
RowReturns ==
    /\ pc = "rows"
    /\ idx <= Len(rows)
    /\ \E res \in {row_results(rows[idx], combs)} :
          /\ ~res.exc
          /\ results_rows' = Append(results_rows, res.val)
    /\ idx' = idx + 1
    /\ UNCHANGED <<pc, arg, ret, rows, combs, df_out>>

\* One turn of the comprehension that raises: nothing catches the exception,
\* which leaves rows_results / excel_results.
RowRaises ==
    /\ pc = "rows"
    /\ idx <= Len(rows)
    /\ row_results(rows[idx], combs).exc
    /\ pc' = "raised"
    /\ ret' = Raised
    /\ UNCHANGED <<arg, rows, combs, idx, results_rows, df_out>>

\* rows_results returns the list.
ReturnRows ==
    /\ pc = "rows"
    /\ idx > Len(rows)
    /\ arg.fn = "rows_results"
    /\ pc' = "returned"
    /\ ret' = [exc |-> FALSE, val |-> results_rows]
    /\ UNCHANGED <<arg, rows, combs, idx, results_rows, df_out>>

\* excel_results writes the input columns beside the result columns, row by row.
WriteExcel ==
    /\ pc = "rows"
    /\ idx > Len(rows)
    /\ arg.fn = "excel_results"
    /\ pc' = "returned"
    /\ df_out' = [i \in 1..Len(arg.sheet) |-> arg.sheet[i] \o results_rows[i]]
    /\ ret' = [exc |-> FALSE, val |-> "out_path"]
    /\ UNCHANGED <<arg, rows, combs, idx, results_rows>>

NextBatch ==
    \/ InputDicosEntree
    \/ RowReturns
    \/ RowRaises
    \/ ReturnRows
    \/ WriteExcel

SpecBatch == InitBatch /\ [][NextBatch]_vars

(***************************************************************************)
(* The Model Builder: def_sections (moteur.py).  The classes of the        *)
(* section library are kept as records of their constructor arguments.     *)
(* Python lists that def_sections shares or mutates live in a heap, a      *)
(* sequence of lists addressed by their position, so that two names of one *)
(* list are told from two lists with the same items.                       *)
(***************************************************************************)
\* a < b on numbers (false as soon as one is nan).
PyLt(a, b) ==
    IF a.t = "float" /\ a.k = "nan" THEN FALSE
    ELSE IF b.t = "float" /\ b.k = "nan" THEN FALSE
    ELSE IF ~IsFiniteNumber(a) \/ ~IsFiniteNumber(b) THEN Sign(a) < Sign(b)
    ELSE NumLt(a, b)

\* max(a, b): b when b > a, else a.
Max2(a, b) == IF PyLt(a, b) THEN b ELSE a

\* x * y on numbers.
NumMul(x, y) ==
    IF IsFiniteNumber(x) /\ IsFiniteNumber(y)
    THEN IF x.t = "int" /\ y.t = "int" THEN IntV(x.m * y.m)
         ELSE FloatV(x.m * y.m, x.d + y.d)
    ELSE IF Sign(x) * Sign(y) = 0 THEN NaNV
    ELSE InfV(Sign(x) * Sign(y) < 0)

\* The literal 1e-9.
Negligible == FloatV(1, 9)

\* An argument left to the default of the library's constructor.
LibraryDefault == StrV(<<"d", "e", "f", "a", "u", "l", "t">>)

\* EC2Concrete(...) of the regime.
Concrete(fck, comb_type) ==
    CASE comb_type = "uls" ->
            [fck |-> fck, diagram_type |-> "uls_parabola", gamma_c |-> FloatV(15, 1)]
      [] comb_type = "sls" ->
            [fck |-> fck, diagram_type |-> "sls_cracked", gamma_c |-> LibraryDefault]
      [] comb_type = "fire" ->
            [fck |-> fck, diagram_type |-> "uls_parabola", gamma_c |-> IntV(1)]

\* SteelRebar(...) of the regime.
Acier(class_acier, fyk, comb_type) ==
    CASE comb_type = "uls" ->
            [ductility_class |-> class_acier, yield_strength_fyk |-> fyk,
             gamma_s |-> FloatV(115, 2), diagram_type |-> LibraryDefault]
      [] comb_type = "sls" ->
            [ductility_class |-> class_acier, yield_strength_fyk |-> fyk,
             gamma_s |-> LibraryDefault, diagram_type |-> StrV(<<"s", "l", "s">>)]
      [] comb_type = "fire" ->
            [ductility_class |-> class_acier, yield_strength_fyk |-> fyk,
             gamma_s |-> IntV(1), diagram_type |-> LibraryDefault]

\* FibreReinforcedPolymer(...) of the regime: in 'fire' the modulus is
\* Ef*max(carbone_feu, 1e-9) and the two stress limits are not given.
RenfCarbone(Ef, sigma_fs, sigma_fu, carbone_feu, comb_type) ==
    IF comb_type = "fire"
    THEN [modulus_elasticity_ef |-> NumMul(Ef, Max2(carbone_feu, Negligible)),
          sigma_f_sls |-> LibraryDefault, sigma_f_uls |-> LibraryDefault]
    ELSE [modulus_elasticity_ef |-> Ef, sigma_f_sls |-> sigma_fs, sigma_f_uls |-> sigma_fu]

\* dummy_frp = FibreReinforcedPolymer(1e-9, 10000, 10000)
DummyFrp ==
    [modulus_elasticity_ef |-> Negligible, sigma_f_sls |-> IntV(10000),
     sigma_f_uls |-> IntV(10000)]

\* The loop placing n points at height y across the width: point i of n is
\* at x = -e*(n - 1)/2 + (i - 1)*e for e = b_dalle/n; x is kept as (i, n).
SpreadPoints(b_dalle, n, y) ==
    [i \in 1..n.m |-> [x |-> [of |-> b_dalle, i |-> i, n |-> n.m], y |-> y]]

\* [Point(0, 0)]
OriginPoint == << [x |-> IntV(0), y |-> IntV(0)] >>

\* Rebars(0, area, material, pts, first_id) and FRPStrips(0, area, material,
\* pts, first_id).
BarGroup(area, material, pts, first_id) ==
    [area |-> area, material |-> material, pts |-> pts, first_id |-> first_id]

\* rebars=[rebar_inf] naming the list already given to the baseline section.
StrengthenedRebars_SharesBaseline(heap, rebar_inf) == [heap |-> heap, ref |-> 1]

\* rebars=[rebar_inf]: a new list.
StrengthenedRebars(heap, rebar_inf) ==
    [heap |-> Append(heap, <<rebar_inf>>), ref |-> Len(heap) + 1]

\* list.append(x) on the list at ref.
ListAppend(heap, ref, x) == [heap EXCEPT ![ref] = Append(@, x)]

\* if Asr * nsr > 0: ... rebars.append(rebar_renf)
AddedSteel(heap, ref, Asr, nsr, acier, b_dalle, dprim_sr) ==
    IF ProductPositive(Asr, nsr)
    THEN ListAppend(heap, ref, BarGroup(Asr, acier, SpreadPoints(b_dalle, nsr, dprim_sr), 101))
    ELSE heap

\* The FRP group without the placeholder: the strips whatever their count.
FrpInf_NoPlaceholder(Af, nf, renf_carbone, b_dalle, dprim_f) ==
    BarGroup(Af, renf_carbone, SpreadPoints(b_dalle, nf, dprim_f), 1)

\* if Af * nf > 0: the strips; else the placeholder.
FrpInf(Af, nf, renf_carbone, b_dalle, dprim_f) ==
    IF ProductPositive(Af, nf)
    THEN BarGroup(Af, renf_carbone, SpreadPoints(b_dalle, nf, dprim_f), 1)
    ELSE BarGroup(IntV(0), DummyFrp, OriginPoint, 1)

\* The two sections once the materials, the slab region and the original
\* steel are made: the heap holds at 1 the list given to the baseline
\* section, and the strengthened section is given the list at rebars.ref.
TwoSections(dalle_reg, rebar_inf, rebars, acier, renf_carbone, geometrie, renforts) ==
    [exc        |-> FALSE,
     heap       |-> AddedSteel(rebars.heap, rebars.ref,
                               DictGet(renforts, K("Asr")), DictGet(renforts, K("nsr")),
                               acier, DictGet(geometrie, K("b_dalle")),
                               DictGet(renforts, K("dprim_sr"))),
     dalle      |-> [regions |-> <<dalle_reg>>, rebars |-> 1, frp_strips |-> <<>>],
     dalle_renf |-> [regions |-> <<dalle_reg>>, rebars |-> rebars.ref,
                     frp_strips |-> << FrpInf(DictGet(renforts, K("Af")),
                                              DictGet(renforts, K("nf")), renf_carbone,
                                              DictGet(geometrie, K("b_dalle")),
                                              DictGet(renforts, K("dprim_f"))) >>]]

\* The slab: Region(0, [Polygon of the four corners], concrete).
DalleReg(geometrie, concrete) ==
    [b_dalle |-> DictGet(geometrie, K("b_dalle")), h_dalle |-> DictGet(geometrie, K("h_dalle")),
     material |-> concrete]

\* rebar_inf = Rebars(0, As, acier, HA_pts, 1)
RebarInf(geometrie, acier) ==
    BarGroup(DictGet(geometrie, K("As")), acier,
             SpreadPoints(DictGet(geometrie, K("b_dalle")), DictGet(geometrie, K("ns")),
                          DictGet(geometrie, K("dprim_s"))), 1)

NoSections == [exc |-> TRUE]

\* dict with each of the missing keys set to 0.
RECURSIVE WithMissing(_, _)
WithMissing(dict, missing) ==
    IF missing = {} THEN dict
    ELSE LET k == CHOOSE x \in missing : TRUE
         IN  WithMissing(Append(dict, <<k, IntV(0)>>), missing \ {k})

\* unpack_* reading a missing field as 0 instead of raising.
Unpack_DefaultsMissing(dict, keys) ==
    [exc |-> FALSE, val |-> WithMissing(dict, keys \ DictKeys(dict))]

\* unpack_materiaux, unpack_geometry, unpack_renforts, unpack_forces: the
\* fields read by subscript, KeyError on the first that is missing.
Unpack(dict, keys) ==
    IF HasAll(dict, keys) THEN [exc |-> FALSE, val |-> dict]
    ELSE [exc |-> TRUE, val |-> <<>>]

\* def_sections after the three unpack_* calls.
BuildSections(m, g, r, comb_type) ==
    IF m.exc \/ g.exc \/ r.exc THEN NoSections
    ELSE IF DefSectionsRaises(m.val, g.val, r.val, comb_type) THEN NoSections
    ELSE CHOOSE out \in
            { TwoSections(DalleReg(g.val, concrete), rebar_inf,
                          StrengthenedRebars(<< <<rebar_inf>> >>, rebar_inf),
                          acier, renf_carbone, g.val, r.val) :
                concrete \in {Concrete(DictGet(m.val, K("fck")), comb_type)},
                acier \in {Acier(DictGet(m.val, K("class_acier")),
                                 DictGet(m.val, K("fyk")), comb_type)},
                rebar_inf \in {RebarInf(g.val,
                                        Acier(DictGet(m.val, K("class_acier")),
                                              DictGet(m.val, K("fyk")), comb_type))},
                renf_carbone \in {RenfCarbone(DictGet(m.val, K("Ef")),
                                              DictGet(m.val, K("sigma_fs")),
                                              DictGet(m.val, K("sigma_fu")),
                                              DictGet(m.val, K("carbone_feu")),
                                              comb_type)} } : TRUE

\* def_sections(materiaux, geometrie, renforts, comb_type): the exception, or
\* the two sections (dalle, dalle_renf) and the heap of their lists.
def_sections(materiaux, geometrie, renforts, comb_type) ==
    CHOOSE out \in
        { BuildSections(m, g, r, comb_type) :
            m \in {Unpack(materiaux, MATERIAUX_KEYS)},
            g \in {Unpack(geometrie, GEOMETRIE_KEYS)},
            r \in {Unpack(renforts, RENFORTS_KEYS)} } : TRUE

\* The rebar groups of a section.
RebarsOf(out, section) == out.heap[section.rebars]

(***************************************************************************)
(* design_section and the verify entry points on the answers of the        *)
(* solver.  The solver is a library outside the repository: the answers of *)
(* a section (its equilibrium state, its state maps, its resisting moment) *)
(* are any of the shapes below, chosen when the section is solved.         *)
(***************************************************************************)
\* abs(x) of a finite number.
NumAbs(x) == [x EXCEPT !.m = IF x.m < 0 THEN -x.m ELSE x.m]

\* a + b on finite numbers.
NumAdd(a, b) ==
    IF a.t = "int" /\ b.t = "int" THEN IntV(a.m + b.m)
    ELSE LET D == IF a.d > b.d THEN a.d ELSE b.d
         IN  FloatV(a.m * Pow10(D - a.d) + b.m * Pow10(D - b.d), D)

Warning == "\n\t!! Warning !! Equilibre non trouve !"

\* The test without the absolute values.
check_pod_equilibre_NoAbs(pod) ==
    IF NumEq(NumAdd(NumAdd(pod.epsilon_0, pod.omega_y), pod.omega_z), IntV(0))
    THEN Warning ELSE ""

\* check_pod_equilibre(pod)
check_pod_equilibre(pod) ==
    IF NumEq(NumAdd(NumAdd(NumAbs(pod.epsilon_0), NumAbs(pod.omega_y)), NumAbs(pod.omega_z)),
             IntV(0))
    THEN Warning ELSE ""

\* The record of 'sls': the two phase-1 values are read from the envelope
\* as they are, the phase-2 values through env_val.
SlsRecord(m_els_1, m_els_2, a1, a2) ==
    [m1        |-> m_els_1,
     m2        |-> m_els_2,
     sigma_c1  |-> envelope(a1.concrete, NoneV, NoneV, "stress").max,
     sigma_c2  |-> env_val(envelope(a2.concrete, NoneV, NoneV, "stress").max, EnvValDefault),
     sigma_s1  |-> envelope(a1.rebars, IntV(1), IntV(99), "stress").min,
     sigma_s2  |-> env_val(envelope(a2.rebars, IntV(1), IntV(99), "stress").min,
                           EnvValDefault),
     sigma_sr2 |-> env_val(envelope(a2.rebars, IntV(101), IntV(199), "stress").min,
                           EnvValDefault),
     sigma_f2  |-> env_val(envelope(a2.frp, NoneV, NoneV, "stress").min, EnvValDefault),
     pod_1     |-> a1.pod,
     pod_2     |-> a2.pod]

\* The record of 'uls' and 'fire'.
UlsRecord(m_ed, a1, a2) ==
    [m_ed     |-> m_ed,
     m_rd1    |-> a1.m_rd,
     m_rd2    |-> a2.m_rd,
     sigma_c  |-> env_val(envelope(a2.concrete, NoneV, NoneV, "stress").max, EnvValDefault),
     sigma_s  |-> env_val(envelope(a2.rebars, IntV(1), IntV(99), "stress").min, EnvValDefault),
     sigma_sr |-> env_val(envelope(a2.rebars, IntV(101), IntV(199), "stress").min,
                          EnvValDefault),
     sigma_f  |-> env_val(envelope(a2.frp, NoneV, NoneV, "stress").min, EnvValDefault),
     pod_uls  |-> a2.pod]

\* The part of design_section after def_sections and unpack_forces.
DesignRecord(comb_type, efforts, a1, a2) ==
    IF comb_type = "sls"
    THEN SlsRecord(DictGet(efforts, K("m_els_1")), DictGet(efforts, K("m_els_2")), a1, a2)
    ELSE UlsRecord(IF comb_type = "uls" THEN DictGet(efforts, K("m_elu"))
                   ELSE DictGet(efforts, K("m_feu")), a1, a2)

\* The calls design_section makes on the two sections, in order.
SolverCalls(comb_type) ==
    IF comb_type = "sls"
    THEN << <<"section_1", "from_forces_to_curvature">>,
            <<"section_2", "from_forces_to_curvature">>,
            <<"section_1", "concrete_internal_state">>,
            <<"section_1", "rebars_internal_state">>,
            <<"section_2", "concrete_internal_state">>,
            <<"section_2", "rebars_internal_state">>,
            <<"section_2", "frp_internal_state">> >>
    ELSE << <<"section_1", "Mrd_max">>, <<"section_2", "Mrd_max">>,
            <<"section_2", "from_forces_to_curvature">>,
            <<"section_2", "concrete_internal_state">>,
            <<"section_2", "rebars_internal_state">>,
            <<"section_2", "frp_internal_state">> >>

\* f"{v:.1f}" and f"{v:.2f}" raise unless v is a number.
FormatRaises(v) == ~IsNumeric(v)

\* The sums of the final block: TypeError on None.
SumRaises(a, b) == ~IsNumeric(a) \/ ~IsNumeric(b)

\* print_sls_results raises.
PrintSlsRaises(r) ==
    \/ \E f \in {"m1", "m2", "sigma_c1", "sigma_c2", "sigma_s1", "sigma_s2", "sigma_sr2",
                 "sigma_f2"} : FormatRaises(r[f])
    \/ SumRaises(r.m1, r.m2)
    \/ SumRaises(r.sigma_c1, r.sigma_c2)
    \/ SumRaises(r.sigma_s1, r.sigma_s2)

\* The three blocks print_sls_results prints: titles, then what
\* check_pod_equilibre returns, then the formatted lines named by their field.
print_sls_results(r) ==
    << "Phase 1", check_pod_equilibre(r.pod_1), "m1", "sigma_c1", "sigma_s1",
       "Phase 2", check_pod_equilibre(r.pod_2), "m2", "sigma_c2", "sigma_s2", "sigma_sr2",
       "sigma_f2",
       "Bilan", check_pod_equilibre(r.pod_1), check_pod_equilibre(r.pod_2),
       "m1+m2", "sigma_c1+sigma_c2", "sigma_s1+sigma_s2", "sigma_sr2", "sigma_f2" >>

\* print_uls_results raises.
PrintUlsRaises(r) ==
    \E f \in {"m_ed", "m_rd1", "m_rd2", "sigma_c", "sigma_s", "sigma_sr", "sigma_f"} :
        FormatRaises(r[f])

\* The two blocks print_uls_results prints.
print_uls_results(r, type) ==
    << IF type = "uls" THEN "Verification ELU" ELSE "Verification au feu",
       "m_ed", "m_rd1", "m_rd2",
       IF type = "uls" THEN "Equilibre ELU" ELSE "Equilibre au feu",
       check_pod_equilibre(r.pod_uls), "sigma_c", "sigma_s", "sigma_sr", "sigma_f" >>

(***************************************************************************)
(* Inputs of the section calculation: the groups of the driver script      *)
(* (Citallios JM.py) with the counts, the added areas and the fire flag    *)
(* varied and with one field missing; bar counts up to MaxBars.            *)
(***************************************************************************)
MaxBars == 2

RECURSIVE DictDel(_, _)
DictDel(dict, k) ==
    IF dict = <<>> THEN <<>>
    ELSE IF Head(dict)[1] = k THEN DictDel(Tail(dict), k)
    ELSE <<Head(dict)>> \o DictDel(Tail(dict), k)

Materiaux(carbone_feu) ==
    << <<K("fck"), IntV(25)>>, <<K("class_acier"), StrV(<<"B">>)>>,
       <<K("fyk"), IntV(500)>>, <<K("Ef"), IntV(170000)>>,
       <<K("sigma_fs"), IntV(1300)>>, <<K("sigma_fu"), IntV(1445)>>,
       <<K("carbone_feu"), carbone_feu>> >>

Geometrie(ns) ==
    << <<K("h_dalle"), FloatV(26, 2)>>, <<K("b_dalle"), FloatV(22, 1)>>,
       <<K("As"), FloatV(565, 6)>>, <<K("dprim_s"), FloatV(4, 2)>>, <<K("ns"), ns>> >>

Renforts(Asr, nsr, Af, nf) ==
    << <<K("Asr"), Asr>>, <<K("dprim_sr"), FloatV(25, 3)>>, <<K("nsr"), nsr>>,
       <<K("Af"), Af>>, <<K("dprim_f"), FloatV(0, 0)>>, <<K("nf"), nf>> >>

Efforts ==
    << <<K("m_els_1"), IntV(38)>>, <<K("m_els_2"), IntV(0)>>,
       <<K("m_elu"), FloatV(4992, 2)>>, <<K("m_feu"), IntV(38)>> >>

FireFlags == { IntV(1), IntV(0), FloatV(5, 1), NoneV }

Counts == { IntV(n) : n \in 0..MaxBars }

CombTypes == { "sls", "uls", "fire" }

SectionInputs ==
    { [fn |-> "def_sections", materiaux |-> m, geometrie |-> g, renforts |-> r,
       efforts |-> Efforts, comb_type |-> c] :
        m \in { Materiaux(f) : f \in FireFlags }
                \cup { DictDel(Materiaux(IntV(1)), k) : k \in {K("carbone_feu"), K("fck")} },
        g \in { Geometrie(n) : n \in Counts } \cup { DictDel(Geometrie(IntV(1)), K("b_dalle")) },
        r \in { Renforts(Asr, nsr, Af, nf) :
                  Asr \in {FloatV(0, 0), FloatV(113, 6)}, nsr \in Counts,
                  Af \in {IntV(0), FloatV(96, 6)}, nf \in Counts },
        c \in CombTypes }

\* The answers of the solver for a section.
Pods ==
    { [epsilon_0 |-> e, omega_y |-> y, omega_z |-> FloatV(0, 0)] :
        e \in {FloatV(0, 0), FloatV(1, 3)}, y \in {FloatV(0, 0), FloatV(-1, 3)} }

ConcreteStates ==
    { <<>>, << [key |-> <<"f", "1">>, rec |-> [stress |-> FloatV(125, 1)]] >> }

\* A key and the stress under it.
Bar(key, stress) == [key |-> key, rec |-> [stress |-> IntV(stress)]]

\* No bar; one bar of each band; bars at and beyond the ends of both bands.
RebarsStates ==
    { <<>>,
      << [key |-> <<"r", "1">>, rec |-> [stress |-> IntV(-250)]],
         [key |-> <<"r", "1", "0", "1">>, rec |-> [stress |-> IntV(-180)]] >>,
      << Bar(<<"r", "0">>, -400), Bar(<<"r", "1">>, -250), Bar(<<"r", "9", "9">>, -260),
         Bar(<<"r", "1", "0", "0">>, -390), Bar(<<"r", "1", "0", "1">>, -180),
         Bar(<<"r", "1", "9", "9">>, -190), Bar(<<"r", "2", "0", "0">>, -380),
         Bar(<<"r", "1", "1", "0", "1">>, -500) >> }

FrpStates ==
    { <<>>, << [key |-> <<"f", "1">>, rec |-> [stress |-> FloatV(0, 0)]] >> }

Answers1 ==
    { [pod |-> p, concrete |-> c, rebars |-> r, m_rd |-> FloatV(1012, 1)] :
        p \in { q \in Pods : q.omega_y = FloatV(0, 0) }, c \in ConcreteStates,
        r \in RebarsStates }

Answers2 ==
    { [pod |-> p, concrete |-> c, rebars |-> r, frp |-> f, m_rd |-> FloatV(1534, 1)] :
        p \in Pods, c \in ConcreteStates, r \in RebarsStates, f \in FrpStates }

DesignInputs ==
    { [fn |-> fn, materiaux |-> m, geometrie |-> g, renforts |-> r, efforts |-> e,
       comb_type |-> c] :
        fn \in {"design_section", "verif"},
        m \in { Materiaux(IntV(1)) } \cup { DictDel(Materiaux(IntV(1)), k) : k \in MATERIAUX_KEYS },
        g \in { Geometrie(IntV(MaxBars)) }
                \cup { DictDel(Geometrie(IntV(MaxBars)), k) : k \in GEOMETRIE_KEYS },
        r \in { Renforts(FloatV(113, 6), IntV(MaxBars), Af, nf) :
                  Af \in {IntV(0), FloatV(96, 6)}, nf \in {IntV(0), IntV(MaxBars)} },
        e \in { Efforts, DictDel(Efforts, K("m_feu")) },
        c \in CombTypes }

(***************************************************************************)
(* Specifications of the section calculation.  SpecSections: one call of   *)
(* def_sections.  SpecDesign: design_section (def_sections, then the       *)
(* solver and the record) and, for a verify entry point, the printing of   *)
(* the record.                                                             *)
(***************************************************************************)
InitSections ==
    /\ pc = "call"
    /\ arg \in SectionInputs
    /\ ret = NoneV
    /\ BatchIdle

InitDesign ==
    /\ pc = "call"
    /\ arg \in DesignInputs
    /\ ret = NoneV
    /\ BatchIdle

\* def_sections(materiaux, geometrie, renforts, comb_type=comb_type)
CallDefSections ==
    /\ pc = "call"
    /\ \E out \in {def_sections(arg.materiaux, arg.geometrie, arg.renforts, arg.comb_type)} :
          /\ pc' = IF out.exc THEN "raised" ELSE "sections"
          /\ ret' = [exc |-> out.exc, sections |-> out, calls |-> <<>>, answers |-> <<>>,
                     record |-> <<>>, narrative |-> <<>>]
    /\ UNCHANGED <<arg, rows, combs, idx, results_rows, df_out>>

\* unpack_forces raises KeyError: design_section ends before any solver call.
UnpackForcesRaises ==
    /\ pc = "sections"
    /\ arg.fn # "def_sections"
    /\ Unpack(arg.efforts, EFFORTS_KEYS).exc
    /\ pc' = "raised"
    /\ ret' = [ret EXCEPT !.exc = TRUE]
    /\ UNCHANGED <<arg, rows, combs, idx, results_rows, df_out>>

\* The rest of design_section: the solver is called on the two sections and
\* the record is assembled from its answers.
SolveAndAssemble ==
    /\ pc = "sections"
    /\ arg.fn # "def_sections"
    /\ ~Unpack(arg.efforts, EFFORTS_KEYS).exc
    /\ \E a1 \in Answers1, a2 \in Answers2 :
          ret' = [ret EXCEPT !.calls = SolverCalls(arg.comb_type),
                             !.answers = <<a1, a2>>,
                             !.record = DesignRecord(arg.comb_type, arg.efforts, a1, a2)]
    /\ pc' = "record"
    /\ UNCHANGED <<arg, rows, combs, idx, results_rows, df_out>>

\* verif_els, verif_elu, verif_feu: the record is printed.
PrintResults ==
    /\ pc = "record"
    /\ arg.fn = "verif"
    /\ IF arg.comb_type = "sls"
       THEN IF PrintSlsRaises(ret.record)
            THEN pc' = "raised" /\ ret' = [ret EXCEPT !.exc = TRUE]
            ELSE pc' = "printed"
                 /\ ret' = [ret EXCEPT !.narrative = print_sls_results(ret.record)]
       ELSE IF PrintUlsRaises(ret.record)
            THEN pc' = "raised" /\ ret' = [ret EXCEPT !.exc = TRUE]
            ELSE pc' = "printed"
                 /\ ret' = [ret EXCEPT !.narrative =
                                          print_uls_results(ret.record, arg.comb_type)]
    /\ UNCHANGED <<arg, rows, combs, idx, results_rows, df_out>>

NextSections == CallDefSections

SpecSections == InitSections /\ [][NextSections]_vars

NextDesign ==
    \/ CallDefSections
    \/ UnpackForcesRaises
    \/ SolveAndAssemble
    \/ PrintResults

SpecDesign == InitDesign /\ [][NextDesign]_vars

(***************************************************************************)
(* The batch path regime by regime: row_results calling design_section     *)
(* for each requested regime of a row.  The solver is taken as a function  *)
(* of the section it is asked about: every bar and strip of the section    *)
(* has an entry in its state map, under a key ending in its identifier,    *)
(* and whether the equilibrium found is degenerate is a trait of the row.  *)
(***************************************************************************)
DigitChar(n) ==
    CASE n = 0 -> "0" [] n = 1 -> "1" [] n = 2 -> "2" [] n = 3 -> "3" [] n = 4 -> "4"
      [] n = 5 -> "5" [] n = 6 -> "6" [] n = 7 -> "7" [] n = 8 -> "8" [] n = 9 -> "9"

\* str(n) of a natural number.
RECURSIVE IntToChars(_)
IntToChars(n) ==
    IF n < 10 THEN <<DigitChar(n)>> ELSE Append(IntToChars(n \div 10), DigitChar(n % 10))

\* section.from_forces_to_curvature(ned, m, 0): the equilibrium state.
from_forces_to_curvature(degenerate, section, ned, m) ==
    IF degenerate
    THEN [t |-> "pod", epsilon_0 |-> FloatV(0, 0), omega_y |-> FloatV(0, 0),
          omega_z |-> FloatV(0, 0)]
    ELSE [t |-> "pod", epsilon_0 |-> FloatV(1, 3), omega_y |-> FloatV(-1, 3),
          omega_z |-> FloatV(0, 0)]

\* section.Mrd_max(ned)
Mrd_max(comb_type, section, ned) == Solved("m_rd", comb_type, section, ned)

\* section.concrete_internal_state(pod): two fibres, their stress depending
\* on the section being the baseline or the strengthened one.
concrete_internal_state(section) ==
    IF section.frp_strips = <<>>
    THEN << [key |-> <<"c", "_", "0">>, rec |-> [stress |-> FloatV(125, 1)]],
            [key |-> <<"c", "_", "1">>, rec |-> [stress |-> FloatV(31, 1)]] >>
    ELSE << [key |-> <<"c", "_", "0">>, rec |-> [stress |-> FloatV(95, 1)]],
            [key |-> <<"c", "_", "1">>, rec |-> [stress |-> FloatV(22, 1)]] >>

\* The entries of one bar group: bar i under the identifier first_id + i - 1.
GroupState(group, name, stress) ==
    [i \in 1..Len(group.pts) |->
        [key |-> name \o IntToChars(group.first_id + i - 1),
         rec |-> [stress |-> IntV(stress - i)]]]

RECURSIVE GroupsState(_, _, _)
GroupsState(groups, name, stress) ==
    IF groups = <<>> THEN <<>>
    ELSE GroupState(Head(groups), name,
                    IF Head(groups).first_id = 1 THEN stress ELSE stress + 70)
            \o GroupsState(Tail(groups), name, stress)

\* section.rebars_internal_state(pod)
rebars_internal_state(groups, section) ==
    GroupsState(groups, <<"r", "_">>, IF section.frp_strips = <<>> THEN -250 ELSE -210)

\* section.frp_internal_state(pod)
frp_internal_state(section) == GroupsState(section.frp_strips, <<"f", "_">>, -40)

\* What design_section gets from the solver for a section.
Answer(degenerate, comb_type, sections, section, moment) ==
    [pod      |-> from_forces_to_curvature(degenerate, section, IntV(0), moment),
     concrete |-> concrete_internal_state(section),
     rebars   |-> rebars_internal_state(RebarsOf(sections, section), section),
     frp      |-> frp_internal_state(section),
     m_rd     |-> Mrd_max(comb_type, [section EXCEPT !.rebars = RebarsOf(sections, section)],
                          IntV(0))]

\* A call of the solver: the section asked, the method and its arguments.
Call(section, method, args) == [section |-> section, method |-> method, args |-> args]

\* The calls of the service regime with the two moments exchanged.
SlsTrace_ExchangesMoments(m_els_1, m_els_2) ==
    << Call("section_1", "from_forces_to_curvature", <<IntV(0), m_els_2, IntV(0)>>),
       Call("section_2", "from_forces_to_curvature", <<IntV(0), m_els_1, IntV(0)>>),
       Call("section_1", "concrete_internal_state", <<"pod_1">>),
       Call("section_1", "rebars_internal_state", <<"pod_1">>),
       Call("section_2", "concrete_internal_state", <<"pod_2">>),
       Call("section_2", "rebars_internal_state", <<"pod_2">>),
       Call("section_2", "frp_internal_state", <<"pod_2">>) >>

\* The calls of design_section in the service regime with their arguments.
SlsTrace(m_els_1, m_els_2) ==
    << Call("section_1", "from_forces_to_curvature", <<IntV(0), m_els_1, IntV(0)>>),
       Call("section_2", "from_forces_to_curvature", <<IntV(0), m_els_2, IntV(0)>>),
       Call("section_1", "concrete_internal_state", <<"pod_1">>),
       Call("section_1", "rebars_internal_state", <<"pod_1">>),
       Call("section_2", "concrete_internal_state", <<"pod_2">>),
       Call("section_2", "rebars_internal_state", <<"pod_2">>),
       Call("section_2", "frp_internal_state", <<"pod_2">>) >>

\* The calls with the baseline section solved for the applied moment too.
UlsTrace_SolvesBaseline(m_ed) ==
    << Call("section_1", "Mrd_max", <<IntV(0)>>),
       Call("section_2", "Mrd_max", <<IntV(0)>>),
       Call("section_1", "from_forces_to_curvature", <<IntV(0), m_ed, IntV(0)>>),
       Call("section_2", "from_forces_to_curvature", <<IntV(0), m_ed, IntV(0)>>),
       Call("section_2", "concrete_internal_state", <<"pod_uls">>),
       Call("section_2", "rebars_internal_state", <<"pod_uls">>),
       Call("section_2", "frp_internal_state", <<"pod_uls">>) >>

\* The calls of design_section in the ultimate and fire regimes.
UlsTrace(m_ed) ==
    << Call("section_1", "Mrd_max", <<IntV(0)>>),
       Call("section_2", "Mrd_max", <<IntV(0)>>),
       Call("section_2", "from_forces_to_curvature", <<IntV(0), m_ed, IntV(0)>>),
       Call("section_2", "concrete_internal_state", <<"pod_uls">>),
       Call("section_2", "rebars_internal_state", <<"pod_uls">>),
       Call("section_2", "frp_internal_state", <<"pod_uls">>) >>

\* The calls of design_section in a regime.
Trace(comb_type, efforts) ==
    IF comb_type = "sls"
    THEN SlsTrace(DictGet(efforts, K("m_els_1")), DictGet(efforts, K("m_els_2")))
    ELSE UlsTrace(IF comb_type = "uls" THEN DictGet(efforts, K("m_elu"))
                  ELSE DictGet(efforts, K("m_feu")))

\* The moment design_section applies in a regime (phase 1 or 2 in 'sls').
AppliedMoment(comb_type, efforts, phase) ==
    CASE comb_type = "sls" /\ phase = 1 -> DictGet(efforts, K("m_els_1"))
      [] comb_type = "sls" /\ phase = 2 -> DictGet(efforts, K("m_els_2"))
      [] comb_type = "uls" -> DictGet(efforts, K("m_elu"))
      [] comb_type = "fire" -> DictGet(efforts, K("m_feu"))

NoRecord == [exc |-> TRUE, val |-> <<>>, calls |-> <<>>]

\* design_section once def_sections has returned its sections.
SolveSections(degenerate, sections, efforts, comb_type) ==
    IF sections.exc \/ Unpack(efforts, EFFORTS_KEYS).exc THEN NoRecord
    ELSE [exc   |-> FALSE,
          val   |-> DesignRecord(comb_type, efforts,
                                 Answer(degenerate, comb_type, sections, sections.dalle,
                                        AppliedMoment(comb_type, efforts, 1)),
                                 Answer(degenerate, comb_type, sections, sections.dalle_renf,
                                        AppliedMoment(comb_type, efforts, 2))),
          calls |-> Trace(comb_type, efforts)]

\* acc filled into the dict of the call before, whose other keys stay.
NewAcc_KeepsLastKeys(last, fields) ==
    IF last = <<>> THEN fields
    ELSE [k \in DOMAIN last \cup DOMAIN fields |->
            IF k \in DOMAIN fields THEN fields[k] ELSE last[k]]

\* acc = {...}: a new dict at each call, whatever the call before returned.
NewAcc(last, fields) == fields

\* The row's own reinforcement group after r_asr is made, with the zeros of
\* r_asr written into it.
AfterRAsr_ZeroedInPlace(r) ==
    DictSet(DictSet(DictSet(r, K("Af"), IntV(0)), K("dprim_f"), IntV(0)), K("nf"), IntV(0))

\* The row's own reinforcement group after r_asr is made: r_asr is a new
\* dict, r is only read.
AfterRAsr(r) == r

\* The blocks of row_results in the order listed in combs.
Passes_AsListed(rev, listed) ==
    [i \in 1..Len(listed) |-> listed[i]] \o (IF rev = "citallios" THEN <<"elu2">> ELSE <<>>)

\* The blocks of row_results in the order of the code: Citallios.py has
\* a fourth block, the second ultimate pass, which JM_Calculs.py has not;
\* the loop body of run_in_terminal has the first three.
Passes(rev, listed) ==
    IF rev = "citallios" THEN <<"els", "elu", "feu", "elu2">> ELSE <<"els", "elu", "feu">>

\* The block after block p, "return" after the last.
RECURSIVE BlockAfter(_, _)
BlockAfter(p, passes) ==
    IF Len(passes) <= 1 THEN "return"
    ELSE IF Head(passes) = p THEN passes[2]
    ELSE BlockAfter(p, Tail(passes))

FirstBlock(passes) == IF passes = <<>> THEN "return" ELSE Head(passes)

\* The regime asked for in combs by a block, and the one of design_section.
RegimeOf(p) == IF p = "elu2" THEN "elu" ELSE p

CombTypeOf(p) ==
    CASE p = "els" -> "sls" [] p = "elu" -> "uls" [] p = "feu" -> "fire" [] p = "elu2" -> "uls"

\* The columns of JM_Calculs.py.
JM_ElsColumns(sls) ==
    << <<"els_m1", sls.m1>>, <<"els_m2", sls.m2>>,
       <<"els_sigma_c1", sls.sigma_c1>>, <<"els_sigma_c2", sls.sigma_c2>>,
       <<"els_sigma_s1", sls.sigma_s1>>, <<"els_sigma_s2", sls.sigma_s2>>,
       <<"els_sigma_sr2", sls.sigma_sr2>>, <<"els_sigma_f2", sls.sigma_f2>> >>

JM_EluColumns(uls) ==
    << <<"elu_m_ed", uls.m_ed>>, <<"elu_m_rd1", uls.m_rd1>>, <<"elu_m_rd2", uls.m_rd2>>,
       <<"elu_sigma_c", uls.sigma_c>>, <<"elu_sigma_s", uls.sigma_s>>,
       <<"elu_sigma_sr", uls.sigma_sr>>, <<"elu_sigma_f", uls.sigma_f>> >>

JM_FeuColumns(feu) ==
    << <<"feu_m_ed", feu.m_ed>>, <<"feu_m_rd1", feu.m_rd1>>, <<"feu_m_rd2", feu.m_rd2>>,
       <<"feu_sigma_c", feu.sigma_c>>, <<"feu_sigma_s", feu.sigma_s>>,
       <<"feu_sigma_sr", feu.sigma_sr>>, <<"feu_sigma_f", feu.sigma_f>> >>

\* The columns a block adds to out.
ColumnsOf(rev, p, record) ==
    IF rev = "terminal" THEN <<>>
    ELSE IF rev = "jm"
    THEN CASE p = "els" -> JM_ElsColumns(record)
           [] p = "elu" -> JM_EluColumns(record)
           [] p = "feu" -> JM_FeuColumns(record)
    ELSE CASE p = "els" -> Els1Columns(record)
           [] p = "elu" -> Elu1Columns(record)
           [] p = "feu" -> Feu1Columns(record)
           [] p = "elu2" -> Elu2Columns(record)

\* out.update(columns)
RECURSIVE DictUpdate(_, _)
DictUpdate(out, columns) ==
    IF columns = <<>> THEN out
    ELSE DictUpdate(DictSet(out, Head(columns)[1], Head(columns)[2]), Tail(columns))

\* verif_els, verif_elu, verif_feu print the record: the exception of the
\* print leaves run_in_terminal.
VerifRaises(rev, comb_type, record) ==
    /\ rev = "terminal"
    /\ IF comb_type = "sls" THEN PrintSlsRaises(record) ELSE PrintUlsRaises(record)

\* The groups a block gives to design_section.
GroupsOf(d, p) ==
    [materiaux |-> d.materiaux, geometrie |-> d.geometrie,
     renforts  |-> IF p = "elu2" THEN r_asr(d.renforts) ELSE d.renforts,
     efforts   |-> IF p = "elu2" THEN d.efforts_2 ELSE d.efforts_1]

(***************************************************************************)
(* Inputs of the batch path: sheets of at most MaxRows normalized rows, a  *)
(* row being strengthened by steel and FRP, not strengthened at all with   *)
(* the same forces in both phases, or without the field nsr; combs as any  *)
(* listing of regimes; at most one row with a degenerate equilibrium.      *)
(***************************************************************************)
Efforts2 ==
    << <<K("m_els_1"), IntV(12)>>, <<K("m_els_2"), FloatV(75, 1)>>,
       <<K("m_elu"), FloatV(165, 1)>>, <<K("m_feu"), IntV(0)>> >>

NormalizedRows ==
    { [materiaux |-> Materiaux(IntV(1)), geometrie |-> Geometrie(IntV(MaxBars)),
       renforts |-> Renforts(FloatV(113, 6), IntV(MaxBars), FloatV(96, 6), IntV(1)),
       efforts_1 |-> Efforts, efforts_2 |-> Efforts2],
      [materiaux |-> Materiaux(IntV(1)), geometrie |-> Geometrie(IntV(1)),
       renforts |-> Renforts(FloatV(0, 0), IntV(0), IntV(0), IntV(0)),
       efforts_1 |-> Efforts, efforts_2 |-> Efforts],
      [materiaux |-> Materiaux(IntV(1)), geometrie |-> Geometrie(IntV(1)),
       renforts |-> DictDel(Renforts(FloatV(113, 6), IntV(1), FloatV(96, 6), IntV(1)),
                            K("nsr")),
       efforts_1 |-> Efforts, efforts_2 |-> Efforts2] }

RECURSIVE SeqsUpTo(_, _)
SeqsUpTo(S, n) ==
    IF n = 0 THEN {<<>>}
    ELSE LET shorter == SeqsUpTo(S, n - 1)
         IN  shorter \cup { Append(x, e) : x \in {y \in shorter : Len(y) = n - 1}, e \in S }

\* combs as listed: the regimes in any order, none twice.
Listings ==
    { l \in SeqsUpTo(Regimes, Cardinality(Regimes)) :
        \A i, j \in 1..Len(l) : l[i] = l[j] => i = j }

RunInputs ==
    { [rev |-> rev, rows |-> sheet, listed |-> l, degenerate |-> dg] :
        rev \in {"citallios", "jm", "terminal"},
        sheet \in SeqsUpTo(NormalizedRows, MaxRows) \ {<<>>},
        l \in Listings,
        dg \in { s \in SeqsUpTo(BOOLEAN, MaxRows) :
                   \A i, j \in 1..Len(s) : s[i] /\ s[j] => i = j } }

(***************************************************************************)
(* Specification of the batch path: [row_results(d, combs) for d in rows], *)
(* or the loop of run_in_terminal whose body calls the verify entry points *)
(* and keeps no entry, one step per block.  ret holds out, the dict being   *)
(* filled for the row, the record of the last call of design_section, and  *)
(* log, the calls of design_section made so far with what they were given  *)
(* and what they returned.                                                 *)
(***************************************************************************)
InitRun ==
    /\ arg \in RunInputs
    /\ Len(arg.degenerate) = Len(arg.rows)
    /\ rows = arg.rows
    /\ combs = { arg.listed[i] : i \in 1..Len(arg.listed) }
    /\ idx = 1
    /\ pc = FirstBlock(Passes(arg.rev, arg.listed))
    /\ ret = [out |-> <<>>, acc |-> <<>>, log |-> <<>>]
    /\ results_rows = <<>>
    /\ df_out = <<>>

\* The block of row_results at p: nothing when its regime is not in combs;
\* else design_section on the groups of the block, whose exception leaves
\* row_results, and out.update with its columns.
RunBlock(p) ==
    /\ pc = p
    /\ idx <= Len(rows)
    /\ IF RegimeOf(p) \notin combs
       THEN /\ pc' = BlockAfter(p, Passes(arg.rev, arg.listed))
            /\ UNCHANGED <<ret, rows>>
       ELSE \E grp \in {GroupsOf(rows[idx], p)} :
            \E res \in {SolveSections(arg.degenerate[idx],
                                      def_sections(grp.materiaux, grp.geometrie, grp.renforts,
                                                   CombTypeOf(p)),
                                      grp.efforts, CombTypeOf(p))} :
               /\ rows' = IF p = "elu2"
                          THEN [rows EXCEPT ![idx].renforts = AfterRAsr(@)]
                          ELSE rows
               /\ IF res.exc \/ VerifRaises(arg.rev, CombTypeOf(p), res.val)
                  THEN pc' = "raised" /\ ret' = ret
                  ELSE \E acc \in {NewAcc(ret.acc, res.val)} :
                       /\ pc' = BlockAfter(p, Passes(arg.rev, arg.listed))
                       /\ ret' = [out |-> DictUpdate(ret.out, ColumnsOf(arg.rev, p, acc)),
                                  acc |-> acc,
                                  log |-> Append(ret.log,
                                                 [row |-> idx, pass |-> p,
                                                  comb_type |-> CombTypeOf(p),
                                                  groups |-> grp, record |-> acc,
                                                  calls |-> res.calls])]
    /\ UNCHANGED <<arg, combs, idx, results_rows, df_out>>

BlockEls == RunBlock("els")

BlockElu == RunBlock("elu")

BlockFeu == RunBlock("feu")

BlockElu2 == RunBlock("elu2")

\* return out: the entry of the row joins the list, the next row starts
\* (run_in_terminal: the end of the loop body).
ReturnOut ==
    /\ pc = "return"
    /\ idx <= Len(rows)
    /\ results_rows' = IF arg.rev = "terminal" THEN results_rows
                        ELSE Append(results_rows, ret.out)
    /\ idx' = idx + 1
    /\ pc' = IF idx < Len(rows) THEN FirstBlock(Passes(arg.rev, arg.listed)) ELSE "returned"
    /\ ret' = [ret EXCEPT !.out = <<>>]
    /\ UNCHANGED <<arg, rows, combs, df_out>>

NextRun ==
    \/ BlockEls
    \/ BlockElu
    \/ BlockFeu
    \/ BlockElu2
    \/ ReturnOut

SpecRun == InitRun /\ [][NextRun]_vars

(***************************************************************************)
(* The service summary: print_sls_results and make_sls_table on a record   *)
(* of the service regime.  A formatted number is the sign and the digits   *)
(* of the text f"{x:.{nd}f}".                                              *)
(***************************************************************************)
\* f"{x:.{nd}f}" of a finite number: rounded to nd decimals, a tie going to
\* the even digit, the sign kept when the digits round to zero.
FormatFixed(x, nd) ==
    LET abs   == IF x.m < 0 THEN -x.m ELSE x.m
        scale == IF x.d > nd THEN Pow10(x.d - nd) ELSE 1
        q     == abs \div scale
        r     == abs % scale
        up    == 2 * r > scale \/ (2 * r = scale /\ q % 2 = 1)
    IN  [neg    |-> x.m < 0,
         digits |-> IF x.d <= nd THEN abs * Pow10(nd - x.d) ELSE q + (IF up THEN 1 ELSE 0),
         nd     |-> nd]

\* The five lines of a block or cells of a column: moment, concrete,
\* original steel, added steel, FRP.
SummaryLines(m, c, s, r, f) ==
    [m |-> FormatFixed(m, 1), c |-> FormatFixed(c, 2), s |-> FormatFixed(s, 1),
     r |-> FormatFixed(r, 1), f |-> FormatFixed(f, 1)]

\* The values print_sls_results formats in its three blocks.
SlsNarrative(r) ==
    [phase_1 |-> SummaryLines(r.m1, r.sigma_c1, r.sigma_s1, IntV(0), IntV(0)),
     phase_2 |-> SummaryLines(r.m2, r.sigma_c2, r.sigma_s2, r.sigma_sr2, r.sigma_f2),
     bilan   |-> SummaryLines(NumAdd(r.m1, r.m2), NumAdd(r.sigma_c1, r.sigma_c2),
                              NumAdd(r.sigma_s1, r.sigma_s2), r.sigma_sr2, r.sigma_f2)]

\* The table with the 'Bilan' column holding the phase-2 values only.
make_sls_table_BilanOfPhase2(r) ==
    [phase_1 |-> SummaryLines(r.m1, r.sigma_c1, r.sigma_s1, FloatV(0, 0), FloatV(0, 0)),
     phase_2 |-> SummaryLines(r.m2, r.sigma_c2, r.sigma_s2, r.sigma_sr2, r.sigma_f2),
     bilan   |-> SummaryLines(r.m2, r.sigma_c2, r.sigma_s2, r.sigma_sr2, r.sigma_f2)]

\* make_sls_table: c = c1 + c2, s = s1 + s2, r = r2, f = f2, m12 = m1 + m2,
\* then the cells of the columns 'Phase 1', 'Phase 2' and 'Bilan'.
make_sls_table(r) ==
    [phase_1 |-> SummaryLines(r.m1, r.sigma_c1, r.sigma_s1, FloatV(0, 0), FloatV(0, 0)),
     phase_2 |-> SummaryLines(r.m2, r.sigma_c2, r.sigma_s2, r.sigma_sr2, r.sigma_f2),
     bilan   |-> SummaryLines(NumAdd(r.m1, r.m2), NumAdd(r.sigma_c1, r.sigma_c2),
                              NumAdd(r.sigma_s1, r.sigma_s2), r.sigma_sr2, r.sigma_f2)]

\* make_sls_table raises: TypeError of a sum or of _fmt on None.
MakeSlsTableRaises(r) ==
    \/ SumRaises(r.sigma_c1, r.sigma_c2)
    \/ SumRaises(r.sigma_s1, r.sigma_s2)
    \/ SumRaises(r.m1, r.m2)
    \/ FormatRaises(r.sigma_sr2)
    \/ FormatRaises(r.sigma_f2)

\* sls_results of citallios_ndc.py, its values cut to three decimals.
NdcRecord ==
    [m1 |-> IntV(30), m2 |-> IntV(30),
     sigma_c1 |-> FloatV(9436, 3), sigma_c2 |-> FloatV(6027, 3),
     sigma_s1 |-> FloatV(-333058, 3), sigma_s2 |-> FloatV(-132333, 3),
     sigma_sr2 |-> FloatV(-144521, 3), sigma_f2 |-> FloatV(-181318, 3),
     pod_1 |-> [epsilon_0 |-> FloatV(-2, 3), omega_y |-> FloatV(9, 3),
                omega_z |-> FloatV(0, 0)],
     pod_2 |-> [epsilon_0 |-> FloatV(-1, 3), omega_y |-> FloatV(4, 3),
                omega_z |-> FloatV(0, 0)]]

\* The records summarised: those design_section returns in 'sls' for the
\* answers of the solver, and the one of the report script.
SummaryRecords ==
    { DesignRecord("sls", e, a1, a2) : e \in {Efforts, Efforts2}, a1 \in Answers1,
                                       a2 \in Answers2 }
        \cup {NdcRecord}

NotMade == [done |-> FALSE, exc |-> FALSE, val |-> <<>>]

InitSummary ==
    /\ pc = "record"
    /\ arg \in SummaryRecords
    /\ ret = [narrative |-> NotMade, table |-> NotMade]
    /\ BatchIdle

\* print_sls_results(sls_results)
PrintSlsResults ==
    /\ ~ret.narrative.done
    /\ ret' = [ret EXCEPT !.narrative =
                  IF PrintSlsRaises(arg) THEN [done |-> TRUE, exc |-> TRUE, val |-> <<>>]
                  ELSE [done |-> TRUE, exc |-> FALSE, val |-> SlsNarrative(arg)]]
    /\ UNCHANGED <<pc, arg, rows, combs, idx, results_rows, df_out>>

\* make_sls_table(document, sls_results)
MakeSlsTable ==
    /\ ~ret.table.done
    /\ ret' = [ret EXCEPT !.table =
                  IF MakeSlsTableRaises(arg) THEN [done |-> TRUE, exc |-> TRUE, val |-> <<>>]
                  ELSE [done |-> TRUE, exc |-> FALSE, val |-> make_sls_table(arg)]]
    /\ UNCHANGED <<pc, arg, rows, combs, idx, results_rows, df_out>>

NextSummary ==
    \/ PrintSlsResults
    \/ MakeSlsTable

SpecSummary == InitSummary /\ [][NextSummary]_vars

(***************************************************************************)
(* Properties of _to_number.                                               *)
(***************************************************************************)
AllDigits(text) == \A i \in 1..Len(text) : text[i] \in Digits

NotSpace(c) == c \notin Whitespace

CommaToPoint(c) == IF c = "," THEN "." ELSE c

\* The text with its surrounding whitespace, inner spaces and non-breaking
\* spaces removed and each comma replaced by a point.
CleanedSpelling(text) ==
    LET kept == SelectSeq(text, NotSpace)
    IN  [i \in 1..Len(kept) |-> CommaToPoint(kept[i])]

\* The exponents a numeral's tail can spell: none (0), or e[sign]digits.
ExponentsSpelled(tail) ==
    IF tail = <<>> THEN {0}
    ELSE IF Head(tail) \notin {"e", "E"} THEN {}
    ELSE LET x == Tail(tail)
         IN  IF x # <<>> /\ AllDigits(x) THEN {DigitsValue(x)}
             ELSE IF Len(x) >= 2 /\ Head(x) = "+" /\ AllDigits(Tail(x))
                  THEN {DigitsValue(Tail(x))}
             ELSE IF Len(x) >= 2 /\ Head(x) = "-" /\ AllDigits(Tail(x))
                  THEN {-DigitsValue(Tail(x))}
             ELSE {}

\* The numbers a text spells as a decimal numeral:
\* [sign] digits [. digits] [exponent], with at least one digit before the exponent.
NumbersSpelled(text) ==
    LET L == Len(text)
        Splits ==
            { q \in (0..1) \X (0..L) \X (0..L) :
                /\ q[1] = 1 => (L >= 1 /\ text[1] \in {"+", "-"})
                /\ q[2] >= q[1]
                /\ AllDigits(SubSeq(text, q[1] + 1, q[2]))
                /\ \/ q[3] = q[2]
                   \/ /\ q[3] > q[2]
                      /\ text[q[2] + 1] = "."
                      /\ AllDigits(SubSeq(text, q[2] + 2, q[3]))
                /\ (q[2] - q[1]) + (IF q[3] > q[2] THEN q[3] - q[2] - 1 ELSE 0) > 0 }
        Value(q, ex) ==
            FloatV((IF q[1] = 1 /\ text[1] = "-" THEN -1 ELSE 1)
                      * DigitsValue(SubSeq(text, q[1] + 1, q[2]) \o SubSeq(text, q[2] + 2, q[3])),
                   (IF q[3] > q[2] THEN q[3] - q[2] - 1 ELSE 0) - ex)
    IN  UNION { { Value(q, ex) : ex \in ExponentsSpelled(SubSeq(text, q[3] + 1, L)) } :
                q \in Splits }

\* C6: a text that, once cleaned, spells a number is returned as that number.
C6_NumericTextIsCoerced ==
    (pc # "call" /\ arg.t = "str" /\ NumbersSpelled(CleanedSpelling(arg.s)) # {})
        => (pc = "return" /\ ret \in NumbersSpelled(CleanedSpelling(arg.s)))

\* C6 witness: "1 200,5" has been coerced to 1200.5.
C6_Witness ==
    /\ pc = "return"
    /\ arg = StrV(<<"1", " ", "2", "0", "0", ",", "5">>)
    /\ ret = FloatV(12005, 1)

\* float() accepts the text: a decimal numeral, or a signed nan / inf / infinity.
ParsesAsNumber(text) ==
    LET body == IF text # <<>> /\ Head(text) \in {"+", "-"} THEN Tail(text) ELSE text
    IN  \/ NumbersSpelled(text) # {}
        \/ Lower(body) \in {<<"n", "a", "n">>, <<"i", "n", "f">>,
                            <<"i", "n", "f", "i", "n", "i", "t", "y">>}

\* An empty or whitespace-only text, or one of the markers nan / none / null.
IsEmptyOrMarkerText(text) ==
    LET kept == SelectSeq(text, NotSpace)
    IN  \/ kept = <<>>
        \/ /\ Lower(Strip(text)) \in NullMarkers

\* C7 as stated: never raises; a numeric argument and every text that does not
\* parse as a number after cleaning are returned unchanged.
C7_Original ==
    pc # "call" =>
        /\ pc = "return"
        /\ IsNumeric(arg) => ret = arg
        /\ (arg.t = "str" /\ ~ParsesAsNumber(CleanedSpelling(arg.s))) => ret = arg

\* C7 amended: never raises; a numeric argument, and every text that is neither
\* empty nor a null marker and does not parse as a number after cleaning, are
\* returned unchanged.
C7_UnparsedTextUnchanged ==
    pc # "call" =>
        /\ pc = "return"
        /\ IsNumeric(arg) => ret = arg
        /\ ( /\ arg.t = "str"
             /\ ~IsEmptyOrMarkerText(arg.s)
             /\ ~ParsesAsNumber(CleanedSpelling(arg.s)) ) => ret = arg

\* C7 witness: "Aciers B500" has come back as the original text.
C7_Witness ==
    /\ pc = "return"
    /\ arg = StrV(<<"A", "c", "i", "e", "r", "s", " ", "B", "5", "0", "0">>)
    /\ ret = arg

\* The values C8 lists: None, empty or whitespace-only text, the markers in any
\* letter case, and the not-a-number float of an empty cell.
IsEmptyOrNullMarker(v) ==
    \/ v = NoneV
    \/ v = NaNV
    \/ v.t = "str" /\ IsEmptyOrMarkerText(v.s)

\* C8 as stated: every empty or null-marker value is coerced to None.
C8_Original ==
    (pc # "call" /\ IsEmptyOrNullMarker(arg)) => (pc = "return" /\ ret = NoneV)

\* C8 on text and None only (the part of C8 the code satisfies).
C8_TextMarkersToNone ==
    (pc # "call" /\ IsEmptyOrNullMarker(arg) /\ arg # NaNV) => (pc = "return" /\ ret = NoneV)

(***************************************************************************)
(* Properties of the Envelope Reducer.                                     *)
(***************************************************************************)
\* The integers n such that key k ends in a run of digits, preceded by no
\* digit, that spells n.
SuffixNumbers(k) ==
    { DigitsValue(SubSeq(k, i, Len(k))) :
        i \in { j \in 1..Len(k) :
                  /\ AllDigits(SubSeq(k, j, Len(k)))
                  /\ (j > 1 => k[j - 1] \notin Digits) } }

\* Entry e of the state map belongs to the filtered subset C3 describes.
InFilter(e, start, end, field) ==
    /\ field \in DOMAIN e.rec
    /\ \/ start = NoneV /\ end = NoneV
       \/ /\ ~(start = NoneV /\ end = NoneV)
          /\ \E n \in SuffixNumbers(e.key) :
                /\ start # NoneV => start.m <= n
                /\ end # NoneV => n <= end.m

ExpectedSub(d, start, end, field) ==
    { <<d[i].key, d[i].rec[field]>> : i \in { j \in 1..Len(d) : InFilter(d[j], start, end, field) } }

ExampleMap ==
    << [key |-> <<"s", "1">>, rec |-> [stress |-> IntV(-10), strain |-> IntV(0)]],
       [key |-> <<"s", "2">>, rec |-> [stress |-> IntV(-50), strain |-> IntV(0)]],
       [key |-> <<"s", "1", "0", "1">>, rec |-> [stress |-> IntV(-5), strain |-> IntV(0)]] >>

\* C3: the filtered subset is exactly the entries holding the field (no range),
\* or those holding the field whose trailing number lies in [start, end]; the
\* two ranges of the documented example give the documented envelopes.
C3_FilterIsExact ==
    pc # "call" =>
        /\ { ret.sub[i] : i \in 1..Len(ret.sub) }
              = ExpectedSub(arg.d, arg.start, arg.end, arg.field)
        /\ Len(ret.sub) = Cardinality(ExpectedSub(arg.d, arg.start, arg.end, arg.field))
        /\ ret.env.count = Len(ret.sub)
        /\ (arg.d = ExampleMap /\ arg.start = IntV(1) /\ arg.end = IntV(99)) =>
              ret.env = [count |-> 2, min |-> IntV(-50), max |-> IntV(-10),
                         ids_min |-> << <<"s", "2">> >>, ids_max |-> << <<"s", "1">> >>]
        /\ (arg.d = ExampleMap /\ arg.start = IntV(101) /\ arg.end = IntV(199)) =>
              ret.env = [count |-> 1, min |-> IntV(-5), max |-> IntV(-5),
                         ids_min |-> << <<"s", "1", "0", "1">> >>,
                         ids_max |-> << <<"s", "1", "0", "1">> >>]

\* C3 witness: the documented example filtered on [1, 99], with s101 left out.
C3_Witness ==
    /\ pc = "return"
    /\ arg.d = ExampleMap
    /\ arg.start = IntV(1)
    /\ arg.end = IntV(99)
    /\ ret.env.count = 2

SeqToSet(q) == { q[i] : i \in 1..Len(q) }

\* C4: on a non-empty subset, count is its size, min and max are its smallest
\* and largest values, and ids_min / ids_max list every key attaining them.
C4_MinMaxAndTies ==
    (pc # "call" /\ ret.sub # <<>>) =>
        LET S == SeqToSet(ret.sub)
            e == ret.env
        IN  /\ e.count = Cardinality(S)
            /\ \A x \in S : ~NumLt(x[2], e.min) /\ ~NumLt(e.max, x[2])
            /\ \E x \in S : x[2] = e.min
            /\ \E x \in S : x[2] = e.max
            /\ ~NumLt(e.max, e.min)
            /\ SeqToSet(e.ids_min) = { x[1] : x \in { y \in S : NumEq(y[2], e.min) } }
            /\ SeqToSet(e.ids_max) = { x[1] : x \in { y \in S : NumEq(y[2], e.max) } }
            /\ Len(e.ids_min) = Cardinality(SeqToSet(e.ids_min))
            /\ Len(e.ids_max) = Cardinality(SeqToSet(e.ids_max))
            /\ e.ids_min # <<>>
            /\ e.ids_max # <<>>

\* C4 witness: two keys share the minimum, a third key holds the maximum.
C4_Witness ==
    /\ pc = "return"
    /\ ret.env.count = 3
    /\ Len(ret.env.ids_min) = 2
    /\ Len(ret.env.ids_max) = 1

\* C5: an empty subset gives the zero-count envelope with null min / max;
\* env_val maps null to the default (0 when none is given) and a number to itself.
C5_EmptyEnvelope ==
    /\ (pc # "call" /\ ret.sub = <<>>) =>
          ret.env = [count |-> 0, min |-> NoneV, max |-> NoneV,
                     ids_min |-> <<>>, ids_max |-> <<>>]
    /\ pc = "env_val" =>
          /\ ret.env.min = NoneV => ret.val_min = (IF ret.given THEN ret.default ELSE IntV(0))
          /\ ret.env.max = NoneV => ret.val_max = (IF ret.given THEN ret.default ELSE IntV(0))
          /\ ret.env.min # NoneV => NumEq(ret.val_min, ret.env.min)
          /\ ret.env.max # NoneV => NumEq(ret.val_max, ret.env.max)

\* C5 witness: a non-empty map none of whose keys is in the range, reduced to
\* the zero-count envelope and coerced to a given default.
C5_Witness ==
    /\ pc = "env_val"
    /\ arg.d # <<>>
    /\ arg.start # NoneV
    /\ \A i \in 1..Len(arg.d) : "stress" \in DOMAIN arg.d[i].rec
    /\ ret.env.count = 0
    /\ ret.given
    /\ ret.val_min = IntV(-1)

(***************************************************************************)
(* Properties of _build_input_dict.                                        *)
(***************************************************************************)
\* The column name is the key with only whitespace around it.
StripsTo(name, key) ==
    \E i \in 1..Len(name) : \E j \in i..Len(name) :
        /\ SubSeq(name, i, j) = key
        /\ \A p \in (1..Len(name)) \ (i..j) : name[p] \in Whitespace

FieldsOf(row, key) == { i \in 1..Len(row) : StripsTo(row[i][1], key) }

LastFieldOf(row, key) ==
    CHOOSE i \in FieldsOf(row, key) : \A j \in FieldsOf(row, key) : j <= i

\* The value a field is stored with: _to_number's, made an integer for a count field.
Coerced(key, v) ==
    LET val == ToNumber(v).val
    IN  IF key \in INT_KEYS /\ val # NoneV THEN IntCoerce(val) ELSE val

\* Every field of the row whose stripped name is in keys is in group, and in no
\* other group, under the stripped name with its own coerced value.
EachFieldStored(row, group, keys, others) ==
    \A i \in 1..Len(row) : \A key \in keys :
        StripsTo(row[i][1], key) =>
            /\ DictHas(group, key)
            /\ DictGet(group, key) = Coerced(key, row[i][2])
            /\ \A o \in others : ~DictHas(o, key)

\* group holds exactly the keys of the set that some field of the row strips to,
\* each with the coerced value of the last such field, and no other group holds them.
LastFieldStored(row, group, keys, others) ==
    /\ DictKeys(group) \subseteq keys
    /\ Len(group) = Cardinality(DictKeys(group))
    /\ \A key \in keys :
          IF FieldsOf(row, key) = {}
          THEN ~DictHas(group, key)
          ELSE /\ DictHas(group, key)
               /\ DictGet(group, key) = Coerced(key, row[LastFieldOf(row, key)][2])
               /\ \A o \in others : ~DictHas(o, key)

RecognisedIn(keys, field) == \E key \in keys : StripsTo(field[1], key)

CitalliosKeys ==
    MATERIAUX_KEYS \cup GEOMETRIE_KEYS \cup RENFORTS_KEYS \cup EFFORTS1_KEYS \cup EFFORTS2_KEYS

JMKeys == MATERIAUX_KEYS \cup GEOMETRIE_KEYS \cup RENFORTS_KEYS \cup EFFORTS_KEYS

RecognisedCitallios(field) == RecognisedIn(CitalliosKeys, field)

RecognisedJM(field) == RecognisedIn(JMKeys, field)

\* The fields with no recognised name leave no trace: the output is the output
\* of the row without them.
UnknownDropped ==
    /\ ret.cit = BuildInputDict(SelectSeq(arg, RecognisedCitallios))
    /\ ret.jm = JM_BuildInputDict(SelectSeq(arg, RecognisedJM))

\* C9 as stated: each field with a material, geometry or reinforcement name is
\* stored in that one group with its coerced value; unknown fields are dropped.
C9_Original ==
    pc = "return" =>
        /\ EachFieldStored(arg, ret.cit.materiaux, MATERIAUX_KEYS,
              {ret.cit.geometrie, ret.cit.renforts, ret.cit.efforts_1, ret.cit.efforts_2})
        /\ EachFieldStored(arg, ret.cit.geometrie, GEOMETRIE_KEYS,
              {ret.cit.materiaux, ret.cit.renforts, ret.cit.efforts_1, ret.cit.efforts_2})
        /\ EachFieldStored(arg, ret.cit.renforts, RENFORTS_KEYS,
              {ret.cit.materiaux, ret.cit.geometrie, ret.cit.efforts_1, ret.cit.efforts_2})
        /\ EachFieldStored(arg, ret.jm.materiaux, MATERIAUX_KEYS,
              {ret.jm.geometrie, ret.jm.renforts, ret.jm.efforts})
        /\ EachFieldStored(arg, ret.jm.geometrie, GEOMETRIE_KEYS,
              {ret.jm.materiaux, ret.jm.renforts, ret.jm.efforts})
        /\ EachFieldStored(arg, ret.jm.renforts, RENFORTS_KEYS,
              {ret.jm.materiaux, ret.jm.geometrie, ret.jm.efforts})
        /\ UnknownDropped

\* C9 amended: as C9, the value stored under a name being that of the last
\* field of the row that strips to it.
C9_RoutingLastWins ==
    pc = "return" =>
        /\ LastFieldStored(arg, ret.cit.materiaux, MATERIAUX_KEYS,
              {ret.cit.geometrie, ret.cit.renforts, ret.cit.efforts_1, ret.cit.efforts_2})
        /\ LastFieldStored(arg, ret.cit.geometrie, GEOMETRIE_KEYS,
              {ret.cit.materiaux, ret.cit.renforts, ret.cit.efforts_1, ret.cit.efforts_2})
        /\ LastFieldStored(arg, ret.cit.renforts, RENFORTS_KEYS,
              {ret.cit.materiaux, ret.cit.geometrie, ret.cit.efforts_1, ret.cit.efforts_2})
        /\ LastFieldStored(arg, ret.jm.materiaux, MATERIAUX_KEYS,
              {ret.jm.geometrie, ret.jm.renforts, ret.jm.efforts})
        /\ LastFieldStored(arg, ret.jm.geometrie, GEOMETRIE_KEYS,
              {ret.jm.materiaux, ret.jm.renforts, ret.jm.efforts})
        /\ LastFieldStored(arg, ret.jm.renforts, RENFORTS_KEYS,
              {ret.jm.materiaux, ret.jm.geometrie, ret.jm.efforts})
        /\ UnknownDropped

\* C9 witness: a padded material name routed under its stripped name beside
\* an unknown column that is dropped.
C9_Witness ==
    /\ pc = "return"
    /\ arg = << <<Padded(K("fck")), IntV(30)>>, <<K("ID"), StrV(<<"B">>)>> >>
    /\ ret.cit.materiaux = << <<K("fck"), IntV(30)>> >>
    /\ ret.cit.geometrie = <<>>
    /\ ret.cit.renforts = <<>>

\* efforts holds, under each canonical name, the coerced value of the row's
\* (last) field of that phase, or 0 when the row has none: nothing else.
PhaseStored(row, efforts, c, column) ==
    /\ DictHas(efforts, c)
    /\ DictGet(efforts, c) =
          IF FieldsOf(row, column) = {} THEN IntV(0)
          ELSE ToNumber(row[LastFieldOf(row, column)][2]).val

\* C10: phase-1 fields are stored in efforts_1 and phase-2 fields in efforts_2
\* under the canonical names, and neither group depends on the other's fields.
C10_TwoPhaseRouting ==
    pc = "return" =>
        /\ DictKeys(ret.cit.efforts_1) = EFFORTS_KEYS
        /\ DictKeys(ret.cit.efforts_2) = EFFORTS_KEYS
        /\ \A c \in EFFORTS_KEYS :
              /\ PhaseStored(arg, ret.cit.efforts_1, c, Phase1Name(c))
              /\ PhaseStored(arg, ret.cit.efforts_2, c, Phase2Name(c))

\* C10 witness: fields of both phases with the same canonical name, each
\* stored in its own group.
C10_Witness ==
    /\ pc = "return"
    /\ arg = << <<K("m_els_1_1"), IntV(30)>>, <<K("m_els_1_2"), FloatV(47, 1)>> >>
    /\ DictGet(ret.cit.efforts_1, K("m_els_1")) = IntV(30)
    /\ DictGet(ret.cit.efforts_2, K("m_els_1")) = FloatV(47, 1)

(***************************************************************************)
(* Properties of the batch run.                                            *)
(***************************************************************************)
BatchEnded == pc \in {"returned", "raised"}

\* What row_results gives for row i of the sheet, alone, under the regimes.
EntryOf(i) == row_results(BuildInputDict(arg.sheet[i]), combs)

\* C1 as stated: whatever the rows, the batch run ends with one entry per
\* input row, in input order, entry i being the result of row i alone.
C1_Original ==
    BatchEnded =>
        /\ Len(results_rows) = Len(arg.sheet)
        /\ \A i \in 1..Len(arg.sheet) :
              ~EntryOf(i).exc => results_rows[i] = EntryOf(i).val

\* C1, for the runs that return: one entry per input row, entry i the result
\* of row i alone, and the written frame pairs row i with entry i.
C1_ReturnedBatchIsPositional ==
    pc = "returned" =>
        /\ Len(results_rows) = Len(arg.sheet)
        /\ \A i \in 1..Len(arg.sheet) :
              /\ ~EntryOf(i).exc
              /\ results_rows[i] = EntryOf(i).val
              /\ arg.fn = "excel_results" => df_out[i] = arg.sheet[i] \o EntryOf(i).val

\* C2 as stated: a row whose processing raises does not abort the batch; the
\* run returns one entry per row, empty for the failed row, computed for the others.
C2_Original ==
    BatchEnded =>
        /\ pc = "returned"
        /\ Len(results_rows) = Len(arg.sheet)
        /\ \A i \in 1..Len(arg.sheet) :
              results_rows[i] = IF EntryOf(i).exc THEN <<>> ELSE EntryOf(i).val

(***************************************************************************)
(* Properties of the force groups of _build_input_dict.                    *)
(***************************************************************************)
KeysInOrder(group) == [i \in 1..Len(group) |-> group[i][1]]

\* The column of the row that feeds each canonical force name.
Phase1Columns == [c \in EFFORTS_KEYS |-> Phase1Name(c)]

Phase2Columns == [c \in EFFORTS_KEYS |-> Phase2Name(c)]

SinglePhaseColumns == [c \in EFFORTS_KEYS |-> c]

\* The group has the four canonical keys in the fixed order and nothing
\* else, and holds 0 for each force whose column the row does not have.
CompleteForceGroup(row, group, columns) ==
    /\ KeysInOrder(group) = effort_order
    /\ \A c \in EFFORTS_KEYS : FieldsOf(row, columns[c]) = {} => DictGet(group, c) = IntV(0)

\* C11 as stated: every normalized force group, of either revision of the
\* normalizer, has exactly the four canonical keys in order, 0 for a missing column.
C11_Original ==
    pc = "return" =>
        /\ CompleteForceGroup(arg, ret.cit.efforts_1, Phase1Columns)
        /\ CompleteForceGroup(arg, ret.cit.efforts_2, Phase2Columns)
        /\ CompleteForceGroup(arg, ret.jm.efforts, SinglePhaseColumns)

\* C11, for the two-phase normalizer (Citallios.py) alone.
C11_TwoPhaseGroupsComplete ==
    pc = "return" =>
        /\ CompleteForceGroup(arg, ret.cit.efforts_1, Phase1Columns)
        /\ CompleteForceGroup(arg, ret.cit.efforts_2, Phase2Columns)

\* The cell gives no value: it is empty, or a null marker.
CellGivesNoValue(v) == v = NoneV \/ (v.t = "str" /\ IsEmptyOrMarkerText(v.s))

\* The moment is never None, and is 0 when the row gives no value for it:
\* no column, or a last cell of that column that gives no value.
MomentDefaulted(row, group, c, column) ==
    /\ DictHas(group, c)
    /\ DictGet(group, c) # NoneV
    /\ (\/ FieldsOf(row, column) = {}
        \/ CellGivesNoValue(row[LastFieldOf(row, column)][2]))
          => DictGet(group, c) = IntV(0)

\* C12 as stated: every moment of efforts_1 and efforts_2 for which the row
\* gives no value (missing column, empty cell, null marker) is 0, never None.
C12_Original ==
    pc = "return" =>
        \A c \in EFFORTS_KEYS :
            /\ MomentDefaulted(arg, ret.cit.efforts_1, c, Phase1Name(c))
            /\ MomentDefaulted(arg, ret.cit.efforts_2, c, Phase2Name(c))

(***************************************************************************)
(* Properties of the integer correction of _build_input_dict.              *)
(***************************************************************************)
\* The integer n is the finite number v cut toward zero.
IsTruncationOf(n, v) ==
    LET D == IF v.d > 0 THEN v.d ELSE 0
        scaled == v.m * Pow10(D - v.d)
    IN  IF scaled >= 0
        THEN n * Pow10(D) <= scaled /\ scaled < (n + 1) * Pow10(D)
        ELSE (n - 1) * Pow10(D) < scaled /\ scaled <= n * Pow10(D)

\* What _to_number gives for the last cell of the row under the key.
CoercedCell(row, key) == ToNumber(row[LastFieldOf(row, key)][2]).val

\* C13 as stated, for one group: a count field whose coerced value is numeric
\* is stored as an integer, any other count value unchanged; no other field
\* is made an integer.
CountsMadeInteger(row, group, keys) ==
    \A key \in keys :
        FieldsOf(row, key) # {} =>
            IF key \in INT_KEYS /\ IsNumeric(CoercedCell(row, key))
            THEN DictGet(group, key).t = "int"
            ELSE DictGet(group, key) = CoercedCell(row, key)

\* As CountsMadeInteger, for the count values that are finite numbers, the
\* integer being the value cut toward zero; nan and the infinities stay.
FiniteCountsMadeInteger(row, group, keys) ==
    \A key \in keys :
        FieldsOf(row, key) # {} =>
            IF key \in INT_KEYS /\ IsFiniteNumber(CoercedCell(row, key))
            THEN /\ DictGet(group, key).t = "int"
                 /\ IsTruncationOf(DictGet(group, key).m, CoercedCell(row, key))
            ELSE DictGet(group, key) = CoercedCell(row, key)

\* C13 as stated: every count field whose coerced value is numeric comes out
\* as an integer, in both revisions of the normalizer.
C13_Original ==
    pc = "return" =>
        /\ CountsMadeInteger(arg, ret.cit.materiaux, MATERIAUX_KEYS)
        /\ CountsMadeInteger(arg, ret.cit.geometrie, GEOMETRIE_KEYS)
        /\ CountsMadeInteger(arg, ret.cit.renforts, RENFORTS_KEYS)
        /\ CountsMadeInteger(arg, ret.jm.materiaux, MATERIAUX_KEYS)
        /\ CountsMadeInteger(arg, ret.jm.geometrie, GEOMETRIE_KEYS)
        /\ CountsMadeInteger(arg, ret.jm.renforts, RENFORTS_KEYS)

\* C13 amended: a count field whose coerced value is a finite number comes
\* out as that number cut to an integer; a count that is text, None, nan or
\* infinite, and every field that is no count, comes out as _to_number left it.
C13_FiniteCountsAreIntegers ==
    pc = "return" =>
        /\ FiniteCountsMadeInteger(arg, ret.cit.materiaux, MATERIAUX_KEYS)
        /\ FiniteCountsMadeInteger(arg, ret.cit.geometrie, GEOMETRIE_KEYS)
        /\ FiniteCountsMadeInteger(arg, ret.cit.renforts, RENFORTS_KEYS)
        /\ FiniteCountsMadeInteger(arg, ret.jm.materiaux, MATERIAUX_KEYS)
        /\ FiniteCountsMadeInteger(arg, ret.jm.geometrie, GEOMETRIE_KEYS)
        /\ FiniteCountsMadeInteger(arg, ret.jm.renforts, RENFORTS_KEYS)

\* C13 witness: the documented row, whose counts 4.0, 2.0 and 3.0 come out as
\* 4, 2 and 3 while the float b_dalle = 1.0 stays a float.
C13_Witness ==
    /\ pc = "return"
    /\ arg = SampleRow
    /\ DictGet(ret.cit.geometrie, K("ns")) = IntV(4)
    /\ DictGet(ret.cit.renforts, K("nsr")) = IntV(2)
    /\ DictGet(ret.cit.renforts, K("nf")) = IntV(3)
    /\ DictGet(ret.cit.geometrie, K("b_dalle")) = FloatV(1, 0)

(***************************************************************************)
(* Round trip of _build_input_dict on the flat row of known groups.        *)
(***************************************************************************)
\* The same value, a count being allowed to come back as the integer equal
\* to the original number.
SameValue(key, out, original) ==
    IF key \in INT_KEYS /\ IsFiniteNumber(original)
    THEN out.t = "int" /\ NumEq(out, original)
    ELSE out = original

\* The same group: the same keys, each with the same value.
SameGroup(out, original) ==
    /\ DictKeys(out) = DictKeys(original)
    /\ Len(out) = Len(original)
    /\ \A key \in DictKeys(original) : SameValue(key, DictGet(out, key), DictGet(original, key))

\* C14: normalizing the flat row of known groups gives the groups back, the
\* counts up to their int / float representation, in both revisions.
C14_RoundTrip ==
    pc = "return" =>
        \A g \in KnownGroups :
            arg = Flatten(g) =>
                /\ SameGroup(ret.cit.materiaux, g.materiaux)
                /\ SameGroup(ret.cit.geometrie, g.geometrie)
                /\ SameGroup(ret.cit.renforts, g.renforts)
                /\ SameGroup(ret.cit.efforts_1, g.efforts_1)
                /\ SameGroup(ret.cit.efforts_2, g.efforts_2)
                /\ SameGroup(ret.jm.materiaux, g.materiaux)
                /\ SameGroup(ret.jm.geometrie, g.geometrie)
                /\ SameGroup(ret.jm.renforts, g.renforts)
                /\ SameGroup(ret.jm.efforts, g.efforts_1)

\* C14 witness: the flat row of known groups with a float count, normalized:
\* the count is back as the integer 4, the forces back in their two groups.
C14_Witness ==
    /\ pc = "return"
    /\ \E g \in KnownGroups :
          /\ arg = Flatten(g)
          /\ DictGet(g.geometrie, K("ns")) = FloatV(4, 0)
          /\ DictGet(ret.cit.geometrie, K("ns")) = IntV(4)
          /\ ret.cit.efforts_1 = g.efforts_1
          /\ ret.cit.efforts_2 = g.efforts_2
          /\ ret.cit.efforts_1 # ret.cit.efforts_2

(***************************************************************************)
(* Properties of def_sections.                                             *)
(***************************************************************************)
SectionsBuilt == pc = "sections" /\ ~ret.sections.exc

Baseline == ret.sections.dalle

Strengthened == ret.sections.dalle_renf

\* added-steel area x count > 0 on the reinforcement group given.
AddedSteelAsked ==
    NumLt(IntV(0), NumMul(DictGet(arg.renforts, K("Asr")), DictGet(arg.renforts, K("nsr"))))

\* The group is the original steel: area As, one point per bar, band from 1.
IsOriginalSteel(group) ==
    /\ group.area = DictGet(arg.geometrie, K("As"))
    /\ Len(group.pts) = DictGet(arg.geometrie, K("ns")).m
    /\ group.first_id = 1

\* The group is the added steel: area Asr, one point per bar, band from 101.
IsAddedSteel(group) ==
    /\ group.area = DictGet(arg.renforts, K("Asr"))
    /\ Len(group.pts) = DictGet(arg.renforts, K("nsr")).m
    /\ group.first_id = 101

\* C15: in every regime the baseline section of def_sections holds the slab
\* region and the original-steel group alone (band starting at 1), no added
\* steel and no FRP; the strengthened section holds the same slab and the same
\* original-steel group, then the added-steel group (band starting at 101)
\* exactly when added-steel area x count > 0, and exactly one FRP group; the
\* added-steel group appended to the strengthened section is not in the
\* baseline section.
C15_BaselineAndStrengthened ==
    SectionsBuilt =>
        /\ Len(Baseline.regions) = 1
        /\ Len(RebarsOf(ret.sections, Baseline)) = 1
        /\ IsOriginalSteel(RebarsOf(ret.sections, Baseline)[1])
        /\ Baseline.frp_strips = <<>>
        /\ Strengthened.regions = Baseline.regions
        /\ RebarsOf(ret.sections, Strengthened)[1] = RebarsOf(ret.sections, Baseline)[1]
        /\ Len(RebarsOf(ret.sections, Strengthened)) = IF AddedSteelAsked THEN 2 ELSE 1
        /\ AddedSteelAsked => IsAddedSteel(RebarsOf(ret.sections, Strengthened)[2])
        /\ Len(Strengthened.frp_strips) = 1

C15_Witness ==
    /\ SectionsBuilt
    /\ AddedSteelAsked
    /\ Len(RebarsOf(ret.sections, Strengthened)) = 2
    /\ Len(RebarsOf(ret.sections, Baseline)) = 1

\* Every field of the material, geometry, reinforcement and force groups is given.
GroupsComplete ==
    /\ MATERIAUX_KEYS \subseteq DictKeys(arg.materiaux)
    /\ GEOMETRIE_KEYS \subseteq DictKeys(arg.geometrie)
    /\ RENFORTS_KEYS \subseteq DictKeys(arg.renforts)
    /\ EFFORTS_KEYS \subseteq DictKeys(arg.efforts)

\* added-FRP area x count is not > 0.
NoFrpAsked ==
    ~NumLt(IntV(0), NumMul(DictGet(arg.renforts, K("Af")), DictGet(arg.renforts, K("nf"))))

\* The FRP stress of the record design_section returns.
FrpStress == IF arg.comb_type = "sls" THEN ret.record.sigma_f2 ELSE ret.record.sigma_f

\* C16: placeholder invariant.  Whenever added-FRP area x count is not > 0
\* (Af = 0 or nf = 0) and the groups are complete, def_sections returns (no
\* division by the zero count), the FRP list of the strengthened section holds
\* exactly one group, of area zero with a single point, and the FRP stress of
\* the record of design_section is, in every regime, a finite number.
C16_PlaceholderInvariant ==
    (pc # "call" /\ GroupsComplete /\ NoFrpAsked) =>
        /\ ~ret.sections.exc
        /\ Len(ret.sections.dalle_renf.frp_strips) = 1
        /\ NumEq(ret.sections.dalle_renf.frp_strips[1].area, IntV(0))
        /\ Len(ret.sections.dalle_renf.frp_strips[1].pts) = 1
        /\ pc \in {"record", "printed"} => IsFiniteNumber(FrpStress)
        /\ pc = "record" => ~ret.exc

C16_Witness ==
    /\ pc = "record"
    /\ GroupsComplete
    /\ DictGet(arg.renforts, K("nf")) = IntV(0)
    /\ DictGet(arg.renforts, K("Af")) # IntV(0)
    /\ arg.comb_type = "fire"
    /\ ret.sections.dalle_renf.frp_strips[1].pts = OriginPoint
    /\ FrpStress = EnvValDefault

\* A mandatory field of the material or geometry group is absent.
MandatoryFieldAbsent ==
    \/ \E k \in MATERIAUX_KEYS : k \notin DictKeys(arg.materiaux)
    \/ \E k \in GEOMETRIE_KEYS : k \notin DictKeys(arg.geometrie)

\* C17: whenever a mandatory material or geometry field is absent from the
\* groups, def_sections, and with it design_section and the verify entry
\* point, ends with an error in every regime: no section is returned, the
\* solver is not called, no record is assembled and nothing is printed.
C17_AbsentFieldAborts ==
    (pc # "call" /\ MandatoryFieldAbsent) =>
        /\ pc = "raised"
        /\ ret.exc
        /\ ret.sections = NoSections
        /\ ret.calls = <<>>
        /\ ret.record = <<>>
        /\ ret.narrative = <<>>

C17_Witness ==
    /\ pc = "raised"
    /\ arg.fn = "verif"
    /\ K("fck") \notin DictKeys(arg.materiaux)
    /\ RENFORTS_KEYS \subseteq DictKeys(arg.renforts)
    /\ EFFORTS_KEYS \subseteq DictKeys(arg.efforts)
    /\ ret.sections = NoSections
    /\ ret.calls = <<>>

(***************************************************************************)
(* Properties of the fire regime of def_sections.                          *)
(***************************************************************************)
\* Everything def_sections needs besides the fire flag is given and usable:
\* the other fields are present and the original steel has a bar.
ValidBesidesFlag ==
    /\ (MATERIAUX_KEYS \ {K("carbone_feu")}) \subseteq DictKeys(arg.materiaux)
    /\ GEOMETRIE_KEYS \subseteq DictKeys(arg.geometrie)
    /\ RENFORTS_KEYS \subseteq DictKeys(arg.renforts)
    /\ DictGet(arg.geometrie, K("ns")).m >= 1

FlagAbsent ==
    \/ K("carbone_feu") \notin DictKeys(arg.materiaux)
    \/ DictGet(arg.materiaux, K("carbone_feu")) = NoneV

\* The fire flag, an absent flag counting as zero.
FlagOrZero == IF FlagAbsent THEN IntV(0) ELSE DictGet(arg.materiaux, K("carbone_feu"))

FrpAsked ==
    NumLt(IntV(0), NumMul(DictGet(arg.renforts, K("Af")), DictGet(arg.renforts, K("nf"))))

\* The modulus of the material of the FRP strips of the strengthened section.
FrpModulus == ret.sections.dalle_renf.frp_strips[1].material.modulus_elasticity_ef

\* Ef x max(flag, 1e-9)
ScaledModulus(flag) ==
    NumMul(DictGet(arg.materiaux, K("Ef")),
           IF NumLt(FloatV(1, 9), flag) THEN flag ELSE FloatV(1, 9))

\* C18 as stated: in the fire regime both sections are built whether the
\* fire flag carbone_feu is a number, zero or absent, and the modulus of the
\* FRP is Ef x max(carbone_feu, 1e-9), an absent flag counting as zero (so
\* Ef x 1e-9 for a zero or absent flag).
C18_Original ==
    (pc # "call" /\ arg.comb_type = "fire" /\ ValidBesidesFlag) =>
        /\ ~ret.sections.exc
        /\ FrpAsked => NumEq(FrpModulus, ScaledModulus(FlagOrZero))

\* What holds: the same for a flag that is present and a number.
C18_NumericFlagScalesModulus ==
    (pc # "call" /\ arg.comb_type = "fire" /\ ValidBesidesFlag /\ ~FlagAbsent) =>
        /\ ~ret.sections.exc
        /\ FrpAsked => NumEq(FrpModulus, ScaledModulus(FlagOrZero))
        /\ (FrpAsked /\ NumEq(FlagOrZero, IntV(0))) => FrpModulus = FloatV(17, 5)

(***************************************************************************)
(* Properties of design_section and the verify entry points.               *)
(***************************************************************************)
RecordReturned == pc \in {"record", "printed"}

\* The stress fields of the record of the regime.
StressFields ==
    IF arg.comb_type = "sls"
    THEN {"sigma_c1", "sigma_c2", "sigma_s1", "sigma_s2", "sigma_sr2", "sigma_f2"}
    ELSE {"sigma_c", "sigma_s", "sigma_sr", "sigma_f"}

\* The stress fields design_section reads through env_val.
CoercedStressFields == StressFields \ {"sigma_c1", "sigma_s1"}

\* C19 as stated: every stress value of the record design_section returns,
\* in the three regimes and with sigma_c1 and sigma_s1 among them, is a number
\* and never None, also when the envelope it is read from is empty.
C19_Original ==
    RecordReturned => \A f \in StressFields : IsNumeric(ret.record[f])

\* What holds: the same for the stress values other than sigma_c1, sigma_s1.
C19_CoercedStressesAreNumbers ==
    RecordReturned => \A f \in CoercedStressFields : IsFiniteNumber(ret.record[f])

\* epsilon_0, omega_y and omega_z are all zero.
Degenerate(pod) ==
    /\ NumEq(pod.epsilon_0, IntV(0))
    /\ NumEq(pod.omega_y, IntV(0))
    /\ NumEq(pod.omega_z, IntV(0))

WarningOf(pod) == IF Degenerate(pod) THEN Warning ELSE ""

\* The narrative holds, where the source calls check_pod_equilibre, the
\* warning exactly for a degenerate state and the empty text otherwise.
WarningsExact ==
    IF arg.comb_type = "sls"
    THEN /\ ret.narrative[2] = WarningOf(ret.record.pod_1)
         /\ ret.narrative[7] = WarningOf(ret.record.pod_2)
         /\ ret.narrative[14] = WarningOf(ret.record.pod_1)
         /\ ret.narrative[15] = WarningOf(ret.record.pod_2)
    ELSE ret.narrative[6] = WarningOf(ret.record.pod_uls)

\* An equilibrium state of the record is degenerate.
SomeDegenerate ==
    IF arg.comb_type = "sls"
    THEN Degenerate(ret.record.pod_1) \/ Degenerate(ret.record.pod_2)
    ELSE Degenerate(ret.record.pod_uls)

\* The printing of the record raised.
PrintRaised == pc = "raised" /\ ret.calls # <<>>

\* C20 as stated: check_pod_equilibre gives the warning exactly when
\* epsilon_0, omega_y and omega_z are all zero and the empty text otherwise;
\* with a degenerate state design_section still returns its record, the state
\* in it, and the verify entry point completes, the warning in its narrative,
\* with no error raised.
C20_Original ==
    /\ pc = "printed" => WarningsExact
    /\ (pc \in {"record", "printed"} \/ PrintRaised) =>
          (SomeDegenerate => ~PrintRaised)

\* What holds: the warning is exact in every narrative printed, and the
\* record of a degenerate state is returned.
C20_WarningExactlyWhenDegenerate ==
    /\ pc = "printed" => WarningsExact
    /\ (pc = "sections" /\ EFFORTS_KEYS \subseteq DictKeys(arg.efforts)) =>
          ENABLED SolveAndAssemble

(***************************************************************************)
(* Properties of the batch path.                                           *)
(***************************************************************************)
\* Some solve of row i found no equilibrium: the state it returned is zero.
RowDegenerate(i) ==
    \E n \in 1..Len(ret.log) :
        /\ ret.log[n].row = i
        /\ \E f \in {"pod_1", "pod_2", "pod_uls"} :
              /\ f \in DOMAIN ret.log[n].record
              /\ Degenerate(ret.log[n].record[f])

\* The value is an annotation of the equilibrium: its state or a text.
IsAnnotation(v) == v.t \in {"pod", "str"}

\* C21: in the batch path the entry that row_results produces for a row
\* whose solve found no equilibrium carries a warning annotation, which tells
\* it from the entry of a row with a genuine equilibrium.
C21_Original ==
    \A i \in 1..Len(results_rows) :
        RowDegenerate(i) =>
            \E k \in 1..Len(results_rows[i]) : IsAnnotation(results_rows[i][k][2])

\* What holds: the entries of a degenerate and of a genuine row with the same
\* groups are the same entry.
C21_EntriesAlike ==
    \A i, j \in 1..Len(results_rows) :
        arg.rows[i] = arg.rows[j] => results_rows[i] = results_rows[j]

\* a == b in Python for the values of the groups.
PyEqual(a, b) == IF IsFiniteNumber(a) /\ IsFiniteNumber(b) THEN NumEq(a, b) ELSE a = b

\* Two dicts that are equal: the same keys with equal values.
EqualDicts(a, b) ==
    /\ DictKeys(a) = DictKeys(b)
    /\ \A key \in DictKeys(a) : PyEqual(DictGet(a, key), DictGet(b, key))

\* Two calls of design_section with identical groups and regime, on a solver
\* that answers them alike.
SameCall(a, b) ==
    /\ a.comb_type = b.comb_type
    /\ EqualDicts(a.groups.materiaux, b.groups.materiaux)
    /\ EqualDicts(a.groups.geometrie, b.groups.geometrie)
    /\ EqualDicts(a.groups.renforts, b.groups.renforts)
    /\ EqualDicts(a.groups.efforts, b.groups.efforts)
    /\ arg.degenerate[a.row] = arg.degenerate[b.row]

Els1Keys ==
    {"els1_m1", "els1_m2", "els1_sigma_c1", "els1_sigma_c2", "els1_sigma_s1",
     "els1_sigma_s2", "els1_sigma_sr2", "els1_sigma_f2"}

Elu1Keys ==
    {"elu1_m_ed", "elu1_m_rd1", "elu1_m_rd2", "elu1_sigma_c", "elu1_sigma_s",
     "elu1_sigma_sr", "elu1_sigma_f"}

Elu2Keys == {"elu2_m_ed", "elu2_sigma_c", "elu2_sigma_s", "elu2_m_rd"}

Feu1Keys ==
    {"feu1_m_ed", "feu1_m_rd1", "feu1_m_rd2", "feu1_sigma_c", "feu1_sigma_s",
     "feu1_sigma_sr", "feu1_sigma_f"}

\* The keys of the unnumbered prefixes els_, elu_, feu_.
PlainElsKeys ==
    {"els_m1", "els_m2", "els_sigma_c1", "els_sigma_c2", "els_sigma_s1", "els_sigma_s2",
     "els_sigma_sr2", "els_sigma_f2"}

PlainEluKeys ==
    {"elu_m_ed", "elu_m_rd1", "elu_m_rd2", "elu_sigma_c", "elu_sigma_s", "elu_sigma_sr",
     "elu_sigma_f"}

PlainFeuKeys ==
    {"feu_m_ed", "feu_m_rd1", "feu_m_rd2", "feu_sigma_c", "feu_sigma_s", "feu_sigma_sr",
     "feu_sigma_f"}

\* The entry has all the keys when asked, none of them otherwise.
AllOrNone(entry, asked, keys) ==
    IF asked THEN keys \subseteq DictKeys(entry) ELSE keys \cap DictKeys(entry) = {}

\* C23 as stated: every entry of row_results has the 8 els1_ keys when
\* 'els' is requested, the 7 elu1_ and the 4 elu2_ keys when 'elu' is, the 7
\* feu1_ keys when 'feu' is, no key of a regime that is not requested, and so
\* never a part of a regime's keys.
C23_Original ==
    \A i \in 1..Len(results_rows) :
        /\ AllOrNone(results_rows[i], "els" \in combs, Els1Keys)
        /\ AllOrNone(results_rows[i], "elu" \in combs, Elu1Keys \cup Elu2Keys)
        /\ AllOrNone(results_rows[i], "feu" \in combs, Feu1Keys)
        /\ Cardinality(DictKeys(results_rows[i])) = Len(results_rows[i])

\* What holds: the statement for row_results of Citallios.py; for the one of
\* JM_Calculs.py the same with the prefixes els_, elu_, feu_ and no second
\* ultimate pass.
C23_NoPartialRegime ==
    \A i \in 1..Len(results_rows) :
        /\ arg.rev = "citallios" =>
              /\ AllOrNone(results_rows[i], "els" \in combs, Els1Keys)
              /\ AllOrNone(results_rows[i], "elu" \in combs, Elu1Keys \cup Elu2Keys)
              /\ AllOrNone(results_rows[i], "feu" \in combs, Feu1Keys)
              /\ DictKeys(results_rows[i]) \subseteq
                    Els1Keys \cup Elu1Keys \cup Elu2Keys \cup Feu1Keys
        /\ arg.rev = "jm" =>
              /\ AllOrNone(results_rows[i], "els" \in combs, PlainElsKeys)
              /\ AllOrNone(results_rows[i], "elu" \in combs, PlainEluKeys)
              /\ AllOrNone(results_rows[i], "feu" \in combs, PlainFeuKeys)
              /\ DictKeys(results_rows[i]) \subseteq
                    PlainElsKeys \cup PlainEluKeys \cup PlainFeuKeys
        /\ Cardinality(DictKeys(results_rows[i])) = Len(results_rows[i])

\* The identifier at the end of the key lies in [lo, hi].
InBand(key, lo, hi) ==
    LET n == default_id_extractor(key)
    IN  n # NoneV /\ lo <= n.m /\ n.m <= hi

AllStresses(state) == { state[i].rec.stress : i \in 1..Len(state) }

BandStresses(state, lo, hi) ==
    { state[i].rec.stress : i \in { j \in 1..Len(state) : InBand(state[j].key, lo, hi) } }

IsLargestOf(v, S) == (\E x \in S : NumEq(v, x)) /\ (\A x \in S : ~NumLt(v, x))

IsSmallestOf(v, S) == (\E x \in S : NumEq(v, x)) /\ (\A x \in S : ~NumLt(x, v))

\* The smallest stress of the set, 0 when the set is empty.
IsSmallestOrZero(v, S) == IF S = {} THEN NumEq(v, IntV(0)) ELSE IsSmallestOf(v, S)

IsSolve(c) == c.method = "from_forces_to_curvature"

IsCapacity(c) == c.method = "Mrd_max"

IsSolveOrCapacity(c) == IsSolve(c) \/ IsCapacity(c)

\* The sections def_sections makes for a logged call, and what the solver
\* answers for the baseline and the strengthened one at a moment.
SectionsOfCall(e) ==
    def_sections(e.groups.materiaux, e.groups.geometrie, e.groups.renforts, e.comb_type)

BaselineAt(e, sections, moment) ==
    Answer(arg.degenerate[e.row], e.comb_type, sections, sections.dalle, moment)

StrengthenedAt(e, sections, moment) ==
    Answer(arg.degenerate[e.row], e.comb_type, sections, sections.dalle_renf, moment)

\* C24: design_section in 'sls' makes exactly two equilibrium solves, the
\* baseline section at m_els_1 and the strengthened one at m_els_2, both at
\* axial force 0, and no capacity moment; its record has m1 = m_els_1,
\* m2 = m_els_2, the largest concrete stress and the smallest stress of the
\* bars 1..99 of the baseline state, and the largest concrete stress, the
\* smallest stresses of the bars 1..99 and 101..199 and the smallest FRP
\* stress of the strengthened state (0 where the state has no such entry).
C24_ServiceSequence ==
    \A n \in 1..Len(ret.log) :
        ret.log[n].comb_type = "sls" =>
            LET e    == ret.log[n]
                m1   == DictGet(e.groups.efforts, K("m_els_1"))
                m2   == DictGet(e.groups.efforts, K("m_els_2"))
                secs == SectionsOfCall(e)
                base == BaselineAt(e, secs, m1)
                str  == StrengthenedAt(e, secs, m2)
            IN  /\ SelectSeq(e.calls, IsSolveOrCapacity) =
                      << Call("section_1", "from_forces_to_curvature",
                              <<IntV(0), m1, IntV(0)>>),
                         Call("section_2", "from_forces_to_curvature",
                              <<IntV(0), m2, IntV(0)>>) >>
                /\ \A i \in 1..Len(e.calls) :
                      ~IsSolve(e.calls[i]) =>
                          e.calls[i].args =
                              <<IF e.calls[i].section = "section_1" THEN "pod_1" ELSE "pod_2">>
                /\ e.record.m1 = m1
                /\ e.record.m2 = m2
                /\ e.record.pod_1 = base.pod
                /\ e.record.pod_2 = str.pod
                /\ IsLargestOf(e.record.sigma_c1, AllStresses(base.concrete))
                /\ IsSmallestOf(e.record.sigma_s1, BandStresses(base.rebars, 1, 99))
                /\ IsLargestOf(e.record.sigma_c2, AllStresses(str.concrete))
                /\ IsSmallestOf(e.record.sigma_s2, BandStresses(str.rebars, 1, 99))
                /\ IsSmallestOrZero(e.record.sigma_sr2, BandStresses(str.rebars, 101, 199))
                /\ IsSmallestOrZero(e.record.sigma_f2, AllStresses(str.frp))

\* A service call with two different moments on a section strengthened by
\* steel and FRP, whose two states differ.
C24_Witness ==
    \E n \in 1..Len(ret.log) :
        /\ ret.log[n].comb_type = "sls"
        /\ ret.log[n].record.m1 # ret.log[n].record.m2
        /\ ~NumEq(ret.log[n].record.sigma_c1, ret.log[n].record.sigma_c2)
        /\ ~NumEq(ret.log[n].record.sigma_s1, ret.log[n].record.sigma_s2)
        /\ NumLt(ret.log[n].record.sigma_sr2, IntV(0))
        /\ NumLt(ret.log[n].record.sigma_f2, IntV(0))

\* C25: design_section in 'uls' and 'fire' computes the capacity moment of
\* the baseline section, then of the strengthened one, at axial force 0,
\* then makes exactly one equilibrium solve, of the strengthened section at
\* axial force 0 and m_ed (m_elu in 'uls', m_feu in 'fire'); the baseline
\* section is never solved and the four stresses of the record are those of
\* the state of that one solve.
C25_UltimateSequence ==
    \A n \in 1..Len(ret.log) :
        ret.log[n].comb_type \in {"uls", "fire"} =>
            LET e    == ret.log[n]
                m_ed == DictGet(e.groups.efforts,
                                IF e.comb_type = "uls" THEN K("m_elu") ELSE K("m_feu"))
                secs == SectionsOfCall(e)
                base == BaselineAt(e, secs, m_ed)
                str  == StrengthenedAt(e, secs, m_ed)
            IN  /\ SelectSeq(e.calls, IsSolveOrCapacity) =
                      << Call("section_1", "Mrd_max", <<IntV(0)>>),
                         Call("section_2", "Mrd_max", <<IntV(0)>>),
                         Call("section_2", "from_forces_to_curvature",
                              <<IntV(0), m_ed, IntV(0)>>) >>
                /\ \A i \in 1..Len(e.calls) :
                      ~IsSolveOrCapacity(e.calls[i]) =>
                          e.calls[i].section = "section_2" /\ e.calls[i].args = <<"pod_uls">>
                /\ e.record.m_ed = m_ed
                /\ e.record.m_rd1 = base.m_rd
                /\ e.record.m_rd2 = str.m_rd
                /\ e.record.pod_uls = str.pod
                /\ IsLargestOf(e.record.sigma_c, AllStresses(str.concrete))
                /\ IsSmallestOf(e.record.sigma_s, BandStresses(str.rebars, 1, 99))
                /\ IsSmallestOrZero(e.record.sigma_sr, BandStresses(str.rebars, 101, 199))
                /\ IsSmallestOrZero(e.record.sigma_f, AllStresses(str.frp))

\* An ultimate and a fire call on a section strengthened by steel and FRP,
\* whose two capacity moments differ.
C25_Witness ==
    /\ \E n \in 1..Len(ret.log) :
          /\ ret.log[n].comb_type = "uls"
          /\ ret.log[n].record.m_rd1 # ret.log[n].record.m_rd2
          /\ NumLt(ret.log[n].record.sigma_sr, IntV(0))
          /\ NumLt(ret.log[n].record.sigma_f, IntV(0))
    /\ \E n \in 1..Len(ret.log) :
          /\ ret.log[n].comb_type = "fire"
          /\ ret.log[n].record.m_ed # DictGet(ret.log[n].groups.efforts, K("m_elu"))

\* The calls of design_section logged for a row by a block.
CallsOf(i, p) == { n \in 1..Len(ret.log) : ret.log[n].row = i /\ ret.log[n].pass = p }

\* The field of the row's reinforcement group, 0 when it is missing.
FieldOr0(r, name) == IF DictHas(r, K(name)) THEN DictGet(r, K(name)) ELSE IntV(0)

Exactly(neg, digits, nd) == [neg |-> neg, digits |-> digits, nd |-> nd]

\* The value x is the one a text shows: within half a unit of its last digit.
Shows(text, x) ==
    LET D      == IF x.d > text.nd THEN x.d ELSE text.nd
        shown  == (IF x.m < 0 THEN -text.digits ELSE text.digits) * Pow10(D - text.nd)
        actual == x.m * Pow10(D - x.d)
        diff   == IF shown < actual THEN actual - shown ELSE shown - actual
    IN  /\ text.neg = (x.m < 0)
        /\ 2 * diff <= Pow10(D - text.nd)

\* A number whose sum with b is shown by the text.
ShowsSumOf(text, a, b) ==
    LET D == IF a.d > b.d THEN a.d ELSE b.d
    IN  Shows(text, [t |-> "float", k |-> "fin",
                     m |-> a.m * Pow10(D - a.d) + b.m * Pow10(D - b.d), d |-> D, s |-> <<>>])

\* C27: in the service summary, whenever it is made, the combined moment,
\* concrete stress and original-steel stress show phase 1 + phase 2 of the
\* record (the sum is formatted, not the formatted values added), the
\* combined added-steel and FRP values are the phase-2 texts, their phase-1
\* values are shown as 0.0; the report table holds the same texts as the
\* terminal narrative, and is made for exactly the records the narrative
\* is made for.
C27_CombinedSummary ==
    /\ ret.narrative.done /\ ~ret.narrative.exc =>
          LET n == ret.narrative.val
          IN  /\ ShowsSumOf(n.bilan.m, arg.m1, arg.m2) /\ n.bilan.m.nd = 1
              /\ ShowsSumOf(n.bilan.c, arg.sigma_c1, arg.sigma_c2) /\ n.bilan.c.nd = 2
              /\ ShowsSumOf(n.bilan.s, arg.sigma_s1, arg.sigma_s2) /\ n.bilan.s.nd = 1
              /\ n.bilan.r = n.phase_2.r /\ Shows(n.bilan.r, arg.sigma_sr2)
              /\ n.bilan.f = n.phase_2.f /\ Shows(n.bilan.f, arg.sigma_f2)
              /\ n.phase_1.r = Exactly(FALSE, 0, 1)
              /\ n.phase_1.f = Exactly(FALSE, 0, 1)
    /\ ret.narrative.done /\ ret.table.done =>
          /\ ret.table.exc = ret.narrative.exc
          /\ ret.table.val = ret.narrative.val

\* Both summaries made of a record whose two phases are not zero and whose
\* combined concrete text is not the sum of the two phase texts.
C27_Witness ==
    /\ ret.narrative.done /\ ~ret.narrative.exc
    /\ ret.table.done /\ ~ret.table.exc
    /\ ret.table.val.bilan.c.digits #
          ret.table.val.phase_1.c.digits + ret.table.val.phase_2.c.digits
    /\ ret.table.val.bilan.s # ret.table.val.phase_2.s
    /\ ret.table.val.bilan.m # ret.table.val.phase_2.m

\* The state map without the bars whose identifier is in neither band.
RECURSIVE BandsOnly(_)
BandsOnly(state) ==
    IF state = <<>> THEN <<>>
    ELSE (IF InBand(Head(state).key, 1, 99) \/ InBand(Head(state).key, 101, 199)
          THEN <<Head(state)>> ELSE <<>>) \o BandsOnly(Tail(state))

\* The smallest stress of the set, None when the set is empty.
IsSmallestOrNone(v, S) == IF S = {} THEN v = NoneV ELSE IsSmallestOf(v, S)

\* The steel stresses of a record and the state maps they are read from.
SteelStresses ==
    IF arg.comb_type = "sls"
    THEN << [band |-> 1, v |-> ret.record.sigma_s2, state |-> ret.answers[2].rebars],
            [band |-> 101, v |-> ret.record.sigma_sr2, state |-> ret.answers[2].rebars] >>
    ELSE << [band |-> 1, v |-> ret.record.sigma_s, state |-> ret.answers[2].rebars],
            [band |-> 101, v |-> ret.record.sigma_sr, state |-> ret.answers[2].rebars] >>

\* C28: in every record of design_section the original-steel stress is the
\* smallest stress of the bars whose identifier, the digits ending their
\* key, lies in 1..99 and the added-steel stress the smallest of those in
\* 101..199 (0, or None for the phase-1 value, when the band has no bar); no
\* bar is in both bands, and the record is the one of the state maps without
\* the bars of neither band (0, 100, 200 and more).
C28_IdentifierBands ==
    RecordReturned =>
        /\ \A i \in 1..Len(SteelStresses) :
              IsSmallestOrZero(SteelStresses[i].v,
                               BandStresses(SteelStresses[i].state, SteelStresses[i].band,
                                            SteelStresses[i].band + 98))
        /\ arg.comb_type = "sls" =>
              IsSmallestOrNone(ret.record.sigma_s1, BandStresses(ret.answers[1].rebars, 1, 99))
        /\ \A a \in {1, 2} : \A i \in 1..Len(ret.answers[a].rebars) :
              ~(InBand(ret.answers[a].rebars[i].key, 1, 99)
                  /\ InBand(ret.answers[a].rebars[i].key, 101, 199))
        /\ ret.record =
              DesignRecord(arg.comb_type, arg.efforts,
                           [ret.answers[1] EXCEPT !.rebars = BandsOnly(@)],
                           [ret.answers[2] EXCEPT !.rebars = BandsOnly(@)])

\* A record read from state maps holding bars with the identifiers 0, 100
\* and 200, whose stresses are below those of the bars of both bands.
C28_Witness ==
    /\ RecordReturned
    /\ arg.comb_type = "sls"
    /\ \A a \in {1, 2} : \A id \in {<<"r", "0">>, <<"r", "1", "0", "0">>, <<"r", "2", "0", "0">>} :
          \E i \in 1..Len(ret.answers[a].rebars) :
              /\ ret.answers[a].rebars[i].key = id
              /\ NumLt(ret.answers[a].rebars[i].rec.stress, ret.record.sigma_s1)
              /\ NumLt(ret.answers[a].rebars[i].rec.stress, ret.record.sigma_s2)
              /\ NumLt(ret.answers[a].rebars[i].rec.stress, ret.record.sigma_sr2)

\* C29: design_section and row_results leave the groups given to them as
\* they were: at every point of the run the rows are the rows the run was
\* given, the second ultimate pass leaving Af, dprim_f and nf of the row's
\* reinforcement group as they were, and every call of a row is made on
\* that row's material, geometry, reinforcement and force groups whatever
\* was run before it.
C29_GroupsUnchanged ==
    /\ rows = arg.rows
    /\ \A n \in 1..Len(ret.log) :
          LET e == ret.log[n]
              d == arg.rows[e.row]
          IN  /\ e.groups.materiaux = d.materiaux
              /\ e.groups.geometrie = d.geometrie
              /\ e.pass # "elu2" =>
                    e.groups.renforts = d.renforts /\ e.groups.efforts = d.efforts_1
              /\ e.pass = "elu2" => e.groups.efforts = d.efforts_2

\* The second ultimate pass of a row strengthened by FRP has been made, on
\* a group without FRP, and a regime of the next row, equal to that row, has
\* run after it.
C29_Witness ==
    \E n1, n2 \in 1..Len(ret.log) :
        /\ n1 < n2
        /\ ret.log[n1].pass = "elu2"
        /\ ret.log[n1].row < ret.log[n2].row
        /\ arg.rows[ret.log[n1].row] = arg.rows[ret.log[n2].row]
        /\ DictGet(ret.log[n1].groups.renforts, K("Af")) = IntV(0)
        /\ NumLt(IntV(0), DictGet(rows[ret.log[n1].row].renforts, K("Af")))
        /\ NumLt(IntV(0), DictGet(ret.log[n2].groups.renforts, K("Af")))

\* The place of a block in the order service, ultimate, fire, second
\* ultimate pass.
Rank(p) == CASE p = "els" -> 1 [] p = "elu" -> 2 [] p = "feu" -> 3 [] p = "elu2" -> 4

\* The blocks that run for a row: those of the requested regimes, the second
\* ultimate pass being one of row_results of Citallios.py only.
Requested ==
    { p \in {"els", "elu", "feu"} : p \in combs }
        \cup (IF arg.rev = "citallios" /\ "elu" \in combs THEN {"elu2"} ELSE {})

\* C30: the calls of design_section are made row after row, and within a
\* row in the order service, ultimate, fire, second ultimate pass, however
\* combs lists the regimes; only requested regimes run, and when a call of
\* a row is made every requested regime of the rows before it has run.
C30_FixedOrder ==
    /\ \A n \in 1..Len(ret.log) :
          /\ ret.log[n].pass \in Requested
          /\ n > 1 =>
                \/ ret.log[n - 1].row < ret.log[n].row
                \/ /\ ret.log[n - 1].row = ret.log[n].row
                   /\ Rank(ret.log[n - 1].pass) < Rank(ret.log[n].pass)
          /\ \A i \in 1..(ret.log[n].row - 1) :
                { ret.log[k].pass : k \in { j \in 1..(n - 1) : ret.log[j].row = i } } = Requested
    /\ pc = "returned" =>
          \A i \in 1..Len(rows) :
              { ret.log[k].pass : k \in { j \in 1..Len(ret.log) : ret.log[j].row = i } }
                  = Requested

\* A run of two rows finished with combs listing fire before ultimate
\* before service.
C30_Witness ==
    /\ pc = "returned"
    /\ Len(rows) > 1
    /\ arg.listed = <<"feu", "elu", "els">>
    /\ arg.rev = "citallios"
    /\ Len(ret.log) = 4 * Len(rows)

====
